---- MODULE Spec2Model ----
(***************************************************************************)
(* A model of bk_asset_tool: the Banjo-Kazooie asset archive container      *)
(* (src/banjo_kazooie/mod.rs), the typed asset codecs and the text codec    *)
(* (src/banjo_kazooie/asset.rs) and the construct driver (src/main.rs).     *)
(*                                                                          *)
(* Bytes are naturals 0..255, byte buffers are sequences of bytes, texts    *)
(* are sequences of Unicode code points.  A Rust panic is the result       *)
(* [ok |-> FALSE]; the program then stops (pc = "panic").                   *)
(***************************************************************************)
EXTENDS Naturals, Integers, Sequences, FiniteSets, TLC

VARIABLES
    pc,          \* position of the run being modelled
    \* ---- text codec (BKString <-> YAML string)
    bk_string,   \* BKString.string : Vec<u8> held by a typed asset
    yaml_text,   \* the characters vecu8_to_string put between the quotes
    yaml_str,    \* the &str the YAML loader hands to BKString::from_yaml
    bk_parsed,   \* the Vec<u8> string_to_vecu8 returns
    re_text,     \* vecu8_to_string of bk_parsed
    \* ---- typed asset codecs (Dialog, Quiz/GruntyQuestion, DemoButtonFile)
    kind,        \* which codec the run exercises
    payload,     \* in_bytes handed to from_bytes
    records,     \* the BKString records the payload was laid out from
    asset,       \* the value from_bytes returns
    out_payload, \* the bytes to_bytes returns
    seg_indx,    \* the segment index handed to from_seg_indx_and_bytes
    \* ---- archive container (extract, construct)
    in_bytes,    \* the archive file read by extract
    assets,      \* AssetFolder.assets
    manifest,    \* assets.yaml
    files,       \* the per-asset files written under the output directory
    out_bytes,   \* the archive file written by construct
    \* ---- texture decoders
    texture,     \* the N64 pixel data handed to a Texture decoder
    rgba32       \* the RGBA8 bytes the decoder returns

textVars  == <<bk_string, yaml_text, yaml_str, bk_parsed, re_text>>
codecVars == <<kind, payload, records, asset, out_payload, seg_indx>>
archVars  == <<in_bytes, assets, manifest, files, out_bytes>>
texVars   == <<texture, rgba32>>
vars      == <<pc, textVars, codecVars, archVars, texVars>>

-----------------------------------------------------------------------------
(* Bounds of the model.                                                     *)

MaxStrLen == 3      \* longest BKString buffer / text drawn for the text codec

-----------------------------------------------------------------------------
(* Results of operations that may panic.                                    *)

Ok(v) == [ok |-> TRUE, val |-> v]
Panic == [ok |-> FALSE, val |-> <<>>]

RECURSIVE SeqsUpTo(_, _)
SeqsUpTo(S, n) ==
    IF n = 0 THEN {<<>>}
    ELSE LET shorter == SeqsUpTo(S, n - 1)
         IN  shorter \cup {Append(s, x) : s \in {t \in shorter : Len(t) = n - 1}, x \in S}

RECURSIVE Reverse(_)
Reverse(s) == IF s = <<>> THEN <<>> ELSE Append(Reverse(Tail(s)), Head(s))

RECURSIVE Flatten(_)
Flatten(ss) == IF ss = <<>> THEN <<>> ELSE Head(ss) \o Flatten(Tail(ss))

-----------------------------------------------------------------------------
(* Text codec: asset.rs, string_to_vecu8 / vecu8_to_string, and the YAML    *)
(* double-quoted scalar the text passes through between the two.            *)

\* "{:02X}": two upper-case hexadecimal digits, as character codes
HexDigit(d) == IF d < 10 THEN 48 + d ELSE 55 + d
EscapeX(b) == <<92, 120, HexDigit(b \div 16), HexDigit(b % 16)>>

\* the loop body of vecu8_to_string: one byte to the characters pushed
EmitByte(b) == IF b >= 128 \/ b < 32 THEN EscapeX(b) ELSE <<b>>

RECURSIVE EmitBytes(_)
EmitBytes(bs) == IF bs = <<>> THEN <<>> ELSE EmitByte(Head(bs)) \o EmitBytes(Tail(bs))

\* the mutant: the final byte of the buffer is emitted like the others
vecu8_to_string_keep_last(bytes) ==
    IF Len(bytes) = 0 THEN Panic ELSE Ok(EmitBytes(bytes))

\* bytes[..bytes.len() - 1] panics on an empty buffer (0 - 1 underflows)
vecu8_to_string(bytes) ==
    IF Len(bytes) = 0 THEN Panic
    ELSE Ok(EmitBytes(SubSeq(bytes, 1, Len(bytes) - 1)))

\* str::as_bytes: the UTF-8 encoding of a text (code points below 0x10000)
Utf8(cp) ==
    IF cp < 128 THEN <<cp>>
    ELSE IF cp < 2048 THEN <<192 + (cp \div 64), 128 + (cp % 64)>>
    ELSE <<224 + (cp \div 4096), 128 + ((cp \div 64) % 64), 128 + (cp % 64)>>

RECURSIVE AsBytes(_)
AsBytes(text) == IF text = <<>> THEN <<>> ELSE Utf8(Head(text)) \o AsBytes(Tail(text))

\* string.windows(2).enumerate().filter([0xC3, 0xBD]).map(i): 0-based, ascending
RECURSIVE SquigFrom(_, _)
SquigFrom(b, i) ==
    IF i + 2 > Len(b) THEN <<>>
    ELSE (IF b[i + 1] = 195 /\ b[i + 2] = 189 THEN <<i>> ELSE <<>>) \o SquigFrom(b, i + 1)

\* string[i] = 0xFD; string.remove(i+1)   (i is 0-based)
CollapseAt(b, i) ==
    IF i + 2 <= Len(b)
    THEN SubSeq(b, 1, i) \o <<253>> \o SubSeq(b, i + 3, Len(b))
    ELSE b

RECURSIVE CollapseAll(_, _)
CollapseAll(b, idxs) ==
    IF idxs = <<>> THEN b ELSE CollapseAll(CollapseAt(b, Head(idxs)), Tail(idxs))

\* the mutant: the indices are visited in ascending order
SquigOrderAscending(squig_indx) == squig_indx

\* squig_indx.reverse()
SquigOrder(squig_indx) == Reverse(squig_indx)

string_to_vecu8(string) ==
    LET b == AsBytes(string)
    IN  Append(CollapseAll(b, SquigOrder(SquigFrom(b, 0))), 0)

\* YAML double-quoted scalar, as the loader scans the characters written
\* between the quotes by the "string: \"{}\"" format of the asset writers.
IsHex(c) == (c >= 48 /\ c <= 57) \/ (c >= 65 /\ c <= 70) \/ (c >= 97 /\ c <= 102)
HexVal(c) == IF c <= 57 THEN c - 48 ELSE IF c <= 70 THEN c - 55 ELSE c - 87

\* single-character escapes: \0 \a \b \t \n \v \f \r \e \space \" \' \\ \N \_
YamlEscapes ==
    {<<48, 0>>, <<97, 7>>, <<98, 8>>, <<116, 9>>, <<110, 10>>, <<118, 11>>,
     <<102, 12>>, <<114, 13>>, <<101, 27>>, <<32, 32>>, <<34, 34>>, <<39, 39>>,
     <<92, 92>>, <<78, 133>>, <<95, 160>>}
YamlEscaped(c) == (CHOOSE p \in YamlEscapes : p[1] = c)[2]

RECURSIVE YamlScan(_, _)
YamlScan(cs, acc) ==
    IF cs = <<>> THEN Ok(acc)
    ELSE IF Head(cs) = 34 THEN Panic       \* the scalar ends early; what follows is no flow mapping
    ELSE IF Head(cs) # 92 THEN YamlScan(Tail(cs), Append(acc, Head(cs)))
    ELSE IF Len(cs) < 2 THEN Panic         \* the backslash escapes the closing quote
    ELSE IF cs[2] = 120
         THEN IF Len(cs) >= 4 /\ IsHex(cs[3]) /\ IsHex(cs[4])
              THEN YamlScan(SubSeq(cs, 5, Len(cs)), Append(acc, 16 * HexVal(cs[3]) + HexVal(cs[4])))
              ELSE Panic
    ELSE IF \E p \in YamlEscapes : p[1] = cs[2]
         THEN YamlScan(SubSeq(cs, 3, Len(cs)), Append(acc, YamlEscaped(cs[2])))
    ELSE Panic                             \* unknown escape character

YamlDoubleQuoted(chars) == YamlScan(chars, <<>>)

-----------------------------------------------------------------------------
(* Integers of fixed width.                                                 *)

\* u32::to_be_bytes (of a value cast "as u32") and u16::to_be_bytes; every
\* length, count and offset of the model is far below 2^31, so the cast
\* keeps the value
U32BE(n) == <<(n \div 16777216) % 256, (n \div 65536) % 256, (n \div 256) % 256, n % 256>>
U16BE(n) == <<(n \div 256) % 256, n % 256>>

\* u32::from_be_bytes / u16::from_be_bytes
RECURSIVE FromBE(_)
FromBE(bs) == IF bs = <<>> THEN 0 ELSE 256 * FromBE(SubSeq(bs, 1, Len(bs) - 1)) + bs[Len(bs)]

\* "as i8" of a byte and "as u8" of an i8
AsI8(b) == IF b >= 128 THEN b - 256 ELSE b
AsU8(x) == (x + 256) % 256

-----------------------------------------------------------------------------
(* Typed asset codecs: asset.rs, Dialog, QuizQuestion, GruntyQuestion,      *)
(* DemoButtonFile.  Offsets are 0-based as in the source; b[k + 1] is the   *)
(* source's in_bytes[k].                                                    *)

\* the record loop of the from_bytes functions: cnt records read at offset
RECURSIVE ReadStrings(_, _, _, _)
ReadStrings(b, offset, cnt, acc) ==
    IF cnt = 0 THEN [ok |-> TRUE, val |-> acc, offset |-> offset]
    ELSE IF offset + 2 > Len(b) THEN [ok |-> FALSE, val |-> <<>>, offset |-> offset]
    ELSE LET cmd      == b[offset + 1]
             str_size == b[offset + 2]
         IN  IF offset + 2 + str_size > Len(b)
             THEN [ok |-> FALSE, val |-> <<>>, offset |-> offset]
             ELSE ReadStrings(b, offset + 2 + str_size, cnt - 1,
                      Append(acc, [cmd |-> cmd,
                                   string |-> SubSeq(b, offset + 3, offset + 2 + str_size)]))

\* the record loop of the to_bytes functions
RECURSIVE StringsToBytes(_)
StringsToBytes(texts) ==
    IF texts = <<>> THEN <<>>
    ELSE <<Head(texts).cmd, Len(Head(texts).string) % 256>> \o Head(texts).string
         \o StringsToBytes(Tail(texts))

Dialog_from_bytes(b) ==
    IF Len(b) < 4 THEN Panic
    ELSE LET bottom == ReadStrings(b, 4, b[4], <<>>)
         IN  IF ~bottom.ok \/ bottom.offset >= Len(b) THEN Panic
             ELSE LET top == ReadStrings(b, bottom.offset + 1, b[bottom.offset + 1], <<>>)
                  IN  IF ~top.ok THEN Panic
                      ELSE Ok([bottom |-> bottom.val, top |-> top.val])

Dialog_to_bytes(d) ==
    <<1, 3, 0>> \o <<Len(d.bottom) % 256>> \o StringsToBytes(d.bottom)
                \o <<Len(d.top) % 256>> \o StringsToBytes(d.top)

\* the mutant: the options are the last two records
QuestionSplitTwo(n) == n - 2

\* texts.split_at(texts.len() - 3)
QuestionSplit(n) == n - 3

\* QuizQuestion::from_bytes and GruntyQuestion::from_bytes share their body
Question_from_bytes(b) ==
    IF Len(b) < 6 THEN Panic
    ELSE LET texts == ReadStrings(b, 6, b[6], <<>>)
         IN  IF ~texts.ok \/ Len(texts.val) < 3 THEN Panic
             ELSE LET k == QuestionSplit(Len(texts.val))
                  IN  IF Len(texts.val) - k < 3 THEN Panic    \* o_text[2] out of range
                      ELSE Ok([question |-> SubSeq(texts.val, 1, k),
                               options  |-> SubSeq(texts.val, k + 1, k + 3)])

QuizPrefix   == <<1, 1, 2, 5, 0>>
GruntyPrefix == <<1, 3, 0, 5, 0>>

Question_to_bytes(prefix, q) ==
    prefix \o <<(Len(q.question) + Len(q.options)) % 256>>
           \o StringsToBytes(q.question) \o StringsToBytes(q.options)

QuizQuestion_from_bytes(b)   == Question_from_bytes(b)
GruntyQuestion_from_bytes(b) == Question_from_bytes(b)
QuizQuestion_to_bytes(q)     == Question_to_bytes(QuizPrefix, q)
GruntyQuestion_to_bytes(q)   == Question_to_bytes(GruntyPrefix, q)

\* in_bytes[4..].chunks_exact(6).map(ContInput{..})
RECURSIVE DemoInputs(_)
DemoInputs(b) ==
    IF Len(b) < 6 THEN <<>>
    ELSE <<[x |-> AsI8(b[1]), y |-> AsI8(b[2]), buttons |-> FromBE(<<b[3], b[4]>>),
            frames |-> b[5]]>> \o DemoInputs(SubSeq(b, 7, Len(b)))

DemoButtonFile_from_bytes(b) ==
    IF Len(b) < 4 THEN Ok([inputs |-> <<>>, frame1_flag |-> 0])
    ELSE IF Len(b) < 10 THEN Panic                           \* in_bytes[9]
    ELSE LET expect_len == FromBE(SubSeq(b, 1, 4))
             inputs     == DemoInputs(SubSeq(b, 5, Len(b)))
         IN  IF expect_len # Len(inputs) * 6 THEN Panic      \* assert_eq!
             ELSE Ok([inputs |-> inputs, frame1_flag |-> b[10]])

ContInput_to_bytes(i) == <<AsU8(i.x), AsU8(i.y)>> \o U16BE(i.buttons) \o <<i.frames, 0>>

RECURSIVE ContInputsToBytes(_)
ContInputsToBytes(inputs) ==
    IF inputs = <<>> THEN <<>>
    ELSE ContInput_to_bytes(Head(inputs)) \o ContInputsToBytes(Tail(inputs))

DemoButtonFile_to_bytes(d) ==
    IF d.inputs = <<>> THEN <<>>
    ELSE LET input_bytes == ContInputsToBytes(d.inputs)
         IN  U32BE(6 * Len(d.inputs))
             \o [k \in 1..Len(input_bytes) |-> IF k = 6 THEN d.frame1_flag ELSE input_bytes[k]]

\* Asset::to_bytes, dispatched on the asset's type
Asset_to_bytes(k, a) ==
    CASE k = "Dialog"         -> Dialog_to_bytes(a)
      [] k = "QuizQuestion"   -> QuizQuestion_to_bytes(a)
      [] k = "GruntyQuestion" -> GruntyQuestion_to_bytes(a)
      [] k = "DemoInput"      -> DemoButtonFile_to_bytes(a)
      [] OTHER                -> a    \* the opaque kinds return self.bytes.clone()

-----------------------------------------------------------------------------
(* Archive container: mod.rs, AssetMeta, AssetEntry, AssetFolder.           *)
(* An Option is a sequence of length 0 (None) or 1 (Some).                  *)

AssetMeta_from_bytes(chunk) ==
    [offset |-> FromBE(SubSeq(chunk, 1, 4)),
     c_flag |-> FromBE(SubSeq(chunk, 5, 6)) # 0,
     t_flag |-> FromBE(SubSeq(chunk, 7, 8))]

AssetMeta_to_bytes(meta) ==
    U32BE(meta.offset) \o <<0, IF meta.c_flag THEN 1 ELSE 0>> \o U16BE(meta.t_flag)

AssetEntry_new(uid) ==
    [uid |-> uid, seg |-> 0, meta |-> [offset |-> 0, c_flag |-> FALSE, t_flag |-> 4],
     data |-> <<>>]

\* rarezip::bk, the external compressor: a two-byte signature, the length of
\* the plain bytes, and the plain bytes stored; unzip undoes it
bk_zip(b) == <<17, 114>> \o U32BE(Len(b)) \o b
bk_unzip(p) == IF Len(p) < 6 THEN Panic ELSE Ok(SubSeq(p, 7, Len(p)))

StartsWith(b, prefix) == Len(b) >= Len(prefix) /\ SubSeq(b, 1, Len(prefix)) = prefix

\* the opaque kinds keep the payload; a typed asset keeps its parsed value
Opaque(type, b) == [type |-> type, fmt |-> "", v |-> b]
Typed(type, r) == IF r.ok THEN Ok([type |-> type, fmt |-> "", v |-> r.val]) ELSE Panic

\* Sprite::from_bytes, the format code
ImgFmtOf(format) ==
    CASE format = 1    -> "CI4"
      [] format = 4    -> "CI8"
      [] format = 32   -> "I4"
      [] format = 64   -> "I8"
      [] format = 1024 -> "RGBA16"
      [] format = 2048 -> "RGBA32"
      [] OTHER         -> "Unknown"

\* the mutant: the 5-bit channels are widened with (c << 3) | (c >> 2)
Rgba5551TopThree(hi, lo) ==
    LET val == 256 * hi + lo
        r16 == (val \div 2048) % 32
        g16 == (val \div 64) % 32
        b16 == (val \div 2) % 32
    IN  <<8 * r16 + (r16 \div 4), 8 * g16 + (g16 \div 4), 8 * b16 + (b16 \div 4),
          IF val % 2 = 1 THEN 255 ELSE 0>>

\* the RGBA5551 expansion shared by rgba16_to_rgba32 and the palettes
Rgba5551(hi, lo) ==
    LET val == 256 * hi + lo
        r16 == (val \div 2048) % 32
        g16 == (val \div 64) % 32
        b16 == (val \div 2) % 32
        a16 == val % 2
    IN  <<8 * r16 + (r16 \div 8), 8 * g16 + (g16 \div 8), 8 * b16 + (b16 \div 8),
          IF a16 = 1 THEN 255 ELSE 0>>

\* chunks_exact(2).map(..): one RGBA8 pixel per two bytes
RECURSIVE Rgba16Pixels(_)
Rgba16Pixels(b) ==
    IF Len(b) < 2 THEN <<>>
    ELSE <<Rgba5551(b[1], b[2])>> \o Rgba16Pixels(SubSeq(b, 3, Len(b)))

Texture_rgba16_to_rgba32(rgba16) == Flatten(Rgba16Pixels(rgba16))

Texture_ci4_to_rgba32(ci4, palatte) ==
    LET pal == Rgba16Pixels(palatte)
    IN  Flatten([k \in 1..Len(ci4) |->
                    pal[(ci4[k] \div 16) + 1] \o pal[(ci4[k] % 16) + 1]])

Texture_ci8_to_rgba32(ci8, palatte) ==
    LET pal == Rgba16Pixels(palatte)
    IN  Flatten([k \in 1..Len(ci8) |-> pal[ci8[k] + 1]])

\* val1 = (a & 0xF0) | (a >> 4), val2 = (a << 4) | (a & 0xF): two pixels a byte
Texture_i4_to_rgba32(i_4) ==
    Flatten([k \in 1..Len(i_4) |->
                LET val1 == 16 * (i_4[k] \div 16) + (i_4[k] \div 16)
                    val2 == 16 * (i_4[k] % 16) + (i_4[k] % 16)
                IN  <<val1, val1, val1, 255, val2, val2, val2, 255>>])

Texture_i8_to_rgba32(i_8) ==
    Flatten([k \in 1..Len(i_8) |-> <<i_8[k], i_8[k], i_8[k], 255>>])

AsI16(n) == IF n >= 32768 THEN n - 65536 ELSE n
Align8(offset) == 8 * ((offset + 7) \div 8)

PxlSize(format) ==
    CASE format \in {"I4", "IA4", "CI4"} -> 4
      [] format \in {"I8", "IA8", "CI8"} -> 8
      [] format = "RGBA16" -> 16
      [] format = "RGBA32" -> 32
      [] OTHER -> 0

\* SpriteChunk::new: the chunk read at *file_offset and the offset after it
SpriteChunk_new(bin, file_offset, format) ==
    IF file_offset + 8 > Len(bin) THEN [ok |-> FALSE, val |-> <<>>, offset |-> file_offset]
    ELSE LET w == FromBE(SubSeq(bin, file_offset + 5, file_offset + 6))
             h == FromBE(SubSeq(bin, file_offset + 7, file_offset + 8))
             offset == Align8(file_offset + 8)
             data_size == (w * h * PxlSize(format)) \div 8
         IN  IF offset + data_size > Len(bin)
             THEN [ok |-> FALSE, val |-> <<>>, offset |-> file_offset]
             ELSE [ok |-> TRUE,
                   val |-> [x |-> AsI16(FromBE(SubSeq(bin, file_offset + 1, file_offset + 2))),
                            y |-> AsI16(FromBE(SubSeq(bin, file_offset + 3, file_offset + 4))),
                            w |-> w, h |-> h,
                            pixel_data |-> SubSeq(bin, offset + 1, offset + data_size)],
                   offset |-> offset + data_size]

\* the while loop of SpriteFrame::new: chunk_cnt chunks read from offset
RECURSIVE ReadChunks(_, _, _, _, _)
ReadChunks(bin, offset, format, cnt, acc) ==
    IF cnt = 0 THEN Ok(acc)
    ELSE IF offset + 8 > Len(bin) THEN Panic             \* bin[offset..offset + 8]
    ELSE LET c == SpriteChunk_new(bin, offset, format)
         IN  IF ~c.ok THEN Panic
             ELSE ReadChunks(bin, c.offset, format, cnt - 1, Append(acc, c.val))

\* the decoder SpriteFrame::new picks for a chunk
ChunkRawData(format, pixel_data, palette) ==
    CASE format = "CI4"    -> Texture_ci4_to_rgba32(pixel_data, palette)
      [] format = "CI8"    -> Texture_ci8_to_rgba32(pixel_data, palette)
      [] format = "I4"     -> Texture_i4_to_rgba32(pixel_data)
      [] format = "I8"     -> Texture_i4_to_rgba32(pixel_data)
      [] format = "RGBA16" -> Texture_rgba16_to_rgba32(pixel_data)
      [] format = "RGBA32" -> pixel_data
      [] OTHER             -> <<>>

\* one chunk pasted on the canvas (a function from <<fx, fy>> to a pixel);
\* rows are raw_data.chunks_exact(4 * chnk.w), pixels row.chunks_exact(4)
BlitChunk(canvas, w, h, chnk, raw_data, single) ==
    LET rows == Len(raw_data) \div (4 * chnk.w)
        src(i, j) == SubSeq(raw_data, 4 * (j * chnk.w + i) + 1, 4 * (j * chnk.w + i) + 4)
        fx(i) == IF single THEN i ELSE chnk.x + i
        fy(j) == IF single THEN j ELSE chnk.y + j
    IN  [p \in DOMAIN canvas |->
            IF \E i \in 0..(chnk.w - 1), j \in 0..(rows - 1) : p = <<fx(i), fy(j)>>
            THEN LET ij == CHOOSE q \in (0..(chnk.w - 1)) \X (0..(rows - 1)) :
                               p = <<fx(q[1]), fy(q[2])>>
                 IN  src(ij[1], ij[2])
            ELSE canvas[p]]

RECURSIVE BlitChunks(_, _, _, _, _, _, _)
BlitChunks(canvas, w, h, chunks, format, palette, single) ==
    IF chunks = <<>> THEN Ok(canvas)
    ELSE IF Head(chunks).w = 0 THEN Panic                \* chunks_exact(0)
    ELSE BlitChunks(BlitChunk(canvas, w, h, Head(chunks),
                              ChunkRawData(format, Head(chunks).pixel_data, palette), single),
                    w, h, Tail(chunks), format, palette, single)

\* offset of the chunks and the palette, by format
PaletteSize(format) == IF format = "CI4" THEN 32 ELSE IF format = "CI8" THEN 512 ELSE 0

SpriteFrame_new(bin, file_offset, format) ==
    IF file_offset + 20 > Len(bin) THEN Panic            \* bin[file_offset..file_offset+0x14]
    ELSE LET w == FromBE(SubSeq(bin, file_offset + 5, file_offset + 6))
             h == FromBE(SubSeq(bin, file_offset + 7, file_offset + 8))
             chunk_cnt == FromBE(SubSeq(bin, file_offset + 9, file_offset + 10))
             paletted == format \in {"CI4", "CI8"}
             pal_at == Align8(file_offset + 20)
             offset == IF paletted THEN pal_at + PaletteSize(format) ELSE file_offset + 20
         IN  IF paletted /\ offset > Len(bin) THEN Panic  \* bin[offset..offset + 0x20]
             ELSE LET palette == IF paletted THEN SubSeq(bin, pal_at + 1, offset) ELSE <<>>
                      chunks  == IF format \in {"CI4", "CI8", "I4", "I8", "RGBA32", "RGBA16"}
                                 THEN ReadChunks(bin, offset, format, chunk_cnt, <<>>)
                                 ELSE Ok(<<>>)
                  IN  IF ~chunks.ok THEN Panic
                      ELSE LET blank  == [p \in (0..(w - 1)) \X (0..(h - 1)) |-> <<0, 0, 0, 0>>]
                               canvas == BlitChunks(blank, w, h, chunks.val, format, palette,
                                                    chunk_cnt = 1)
                           IN  IF ~canvas.ok THEN Panic
                               ELSE Ok([w |-> w, h |-> h,
                                        header |-> SubSeq(bin, file_offset + 1, file_offset + 20),
                                        pixel_data |->
                                            Flatten([k \in 1..(w * h) |->
                                                canvas.val[<<(k - 1) % w, (k - 1) \div w>>]])])

\* in_bytes[0x10..].chunks_exact(4).take(frame_cnt).map(SpriteFrame::new)
RECURSIVE SpriteFrames(_, _, _, _, _)
SpriteFrames(b, frame_cnt, format, k, acc) ==
    IF k >= frame_cnt \/ 16 + 4 * (k + 1) > Len(b) THEN Ok(acc)
    ELSE LET offset == FromBE(SubSeq(b, 16 + 4 * k + 1, 16 + 4 * k + 4))
             f == SpriteFrame_new(b, 16 + offset + 4 * frame_cnt, format)
         IN  IF ~f.ok THEN Panic ELSE SpriteFrames(b, frame_cnt, format, k + 1, Append(acc, f.val))

Sprite_from_bytes(b) ==
    IF Len(b) < 4 THEN Panic
    ELSE LET frame_cnt == FromBE(SubSeq(b, 1, 2))
             format    == FromBE(SubSeq(b, 3, 4))
             frmt      == ImgFmtOf(format)
             sprite(frames) == [type |-> "Sprite", fmt |-> frmt, code |-> format, v |-> b,
                                frame |-> frames]
         IN  IF frmt = "Unknown" THEN Ok(sprite(<<>>))
             ELSE IF frame_cnt > 256
             THEN LET chunk == SpriteChunk_new(b, 8, "RGBA16")
                  IN  IF ~chunk.ok THEN Panic
                      ELSE Ok(sprite(<<[w |-> chunk.val.w, h |-> chunk.val.h, header |-> <<>>,
                                        pixel_data |-> Texture_rgba16_to_rgba32(chunk.val.pixel_data)]>>))
             ELSE IF Len(b) < 16 THEN Panic                 \* in_bytes[0x10..]
             ELSE LET frames == SpriteFrames(b, frame_cnt, frmt, 0, <<>>)
                  IN  IF frames.ok THEN Ok(sprite(frames.val)) ELSE Panic

\* the mutant: segment 4 tests the Dialog prefix before the GruntyQuestion one
from_seg_indx_and_bytes_dialog_first(segment, b) ==
    CASE segment = 0 -> Ok(Opaque("Animation", b))
      [] segment \in {1, 3} ->
            IF StartsWith(b, <<0, 0, 0, 11>>) THEN Ok(Opaque("Model", b))
            ELSE Sprite_from_bytes(b)
      [] segment = 2 -> Ok(Opaque("LevelSetup", b))
      [] segment = 4 ->
            IF StartsWith(b, <<1, 1, 2, 5, 0>>) THEN Typed("QuizQuestion", QuizQuestion_from_bytes(b))
            ELSE IF StartsWith(b, <<1, 3, 0>>) THEN Typed("Dialog", Dialog_from_bytes(b))
            ELSE Typed("DemoInput", DemoButtonFile_from_bytes(b))
      [] segment = 5 -> Ok(Opaque("Model", b))
      [] segment = 6 -> Ok(Opaque("Midi", b))
      [] OTHER -> Ok(Opaque("Binary", b))

from_seg_indx_and_bytes(segment, b) ==
    CASE segment = 0 -> Ok(Opaque("Animation", b))
      [] segment \in {1, 3} ->
            IF StartsWith(b, <<0, 0, 0, 11>>) THEN Ok(Opaque("Model", b))
            ELSE Sprite_from_bytes(b)
      [] segment = 2 -> Ok(Opaque("LevelSetup", b))
      [] segment = 4 ->
            IF StartsWith(b, <<1, 1, 2, 5, 0>>) THEN Typed("QuizQuestion", QuizQuestion_from_bytes(b))
            ELSE IF StartsWith(b, <<1, 3, 0, 5, 0>>) THEN Typed("GruntyQuestion", GruntyQuestion_from_bytes(b))
            ELSE IF StartsWith(b, <<1, 3, 0>>) THEN Typed("Dialog", Dialog_from_bytes(b))
            ELSE Typed("DemoInput", DemoButtonFile_from_bytes(b))
      [] segment = 5 -> Ok(Opaque("Model", b))
      [] segment = 6 -> Ok(Opaque("Midi", b))
      [] OTHER -> Ok(Opaque("Binary", b))

\* meta_info: table_bytes.chunks_exact(8).map(AssetMeta::from_bytes)
MetaInfo(table_bytes) ==
    [k \in 1..(Len(table_bytes) \div 8) |->
        AssetMeta_from_bytes(SubSeq(table_bytes, 8 * k - 7, 8 * k))]

\* (this.t_flag != 2) && (prev_t & 2) != (this.t_flag & 2)
SegmentAdvances(prev_t, t_flag) ==
    /\ t_flag # 2
    /\ ((prev_t \div 2) % 2) # ((t_flag \div 2) % 2)

\* the mutant: prev_t starts at 0
InitWalkZero == [segment |-> 0, prev_t |-> 0]

\* let mut segment : usize = 0; let mut prev_t : u16 = 0x3
InitWalk == [segment |-> 0, prev_t |-> 3]

\* the mutant: an empty entry records the running counter
EmptyEntrySegRunning(segment) == segment

\* AssetEntry{uid : i, seg : 0, ..} for an empty entry
EmptyEntrySeg(segment) == 0

\* the mutant: prev_t follows every non-empty slot
NextPrevTEverySlot(advances, prev_t, t_flag) == t_flag

\* prev_t = this.t_flag, inside the branch that advances the counter
NextPrevT(advances, prev_t, t_flag) == IF advances THEN t_flag ELSE prev_t

\* the closure of meta_info.windows(2).enumerate().map(..), applied to the
\* windows from index i (0-based) on, with the captured segment and prev_t
RECURSIVE WalkSlots(_, _, _, _, _, _)
WalkSlots(meta_info, data_bytes, i, segment, prev_t, acc) ==
    IF i + 2 > Len(meta_info) THEN Ok(acc)
    ELSE LET this == meta_info[i + 1]
             next == meta_info[i + 2]
         IN  IF this.t_flag = 4
             THEN WalkSlots(meta_info, data_bytes, i + 1, segment, prev_t,
                      Append(acc, [uid |-> i, seg |-> EmptyEntrySeg(segment), meta |-> this,
                                   data |-> <<>>]))
             ELSE LET adv  == SegmentAdvances(prev_t, this.t_flag)
                      seg2 == IF adv THEN segment + 1 ELSE segment
                      prv2 == NextPrevT(adv, prev_t, this.t_flag)
                  IN  IF this.offset > next.offset \/ next.offset > Len(data_bytes)
                      THEN Panic                    \* data_bytes[this.offset..next.offset]
                      ELSE LET comp_bin   == SubSeq(data_bytes, this.offset + 1, next.offset)
                               decomp_bin == IF this.c_flag THEN bk_unzip(comp_bin) ELSE Ok(comp_bin)
                               this_asset == IF decomp_bin.ok
                                             THEN from_seg_indx_and_bytes(seg2, decomp_bin.val)
                                             ELSE Panic
                           IN  IF ~this_asset.ok THEN Panic
                               ELSE WalkSlots(meta_info, data_bytes, i + 1, seg2, prv2,
                                        Append(acc, [uid |-> i, seg |-> seg2, meta |-> this,
                                                     data |-> <<this_asset.val>>]))

AssetFolder_from_bytes(b) ==
    IF Len(b) < 8 THEN Panic
    ELSE LET asset_slot_cnt == FromBE(SubSeq(b, 1, 4))
         IN  IF 8 * asset_slot_cnt > Len(b) - 8 THEN Panic      \* split_at
             ELSE WalkSlots(MetaInfo(SubSeq(b, 9, 8 + 8 * asset_slot_cnt)),
                            SubSeq(b, 9 + 8 * asset_slot_cnt, Len(b)),
                            0, InitWalk.segment, InitWalk.prev_t, <<>>)

-----------------------------------------------------------------------------
(* The files of an extracted directory.  Numbers are written as text (the   *)
(* characters of "{:04X}", "{:02X}", "{:X}", "{}") and read back by the     *)
(* YAML loader's integer scalars; the "0x" prefix and the padding blanks of *)
(* "{:3}", "{:5}", "{:6}" are left out of the text.                         *)

RECURSIVE HexDigits(_)
HexDigits(n) == IF n < 16 THEN <<HexDigit(n)>> ELSE Append(HexDigits(n \div 16), HexDigit(n % 16))

RECURSIVE ZeroPad(_, _)
ZeroPad(cs, width) == IF Len(cs) >= width THEN cs ELSE ZeroPad(<<48>> \o cs, width)

HexText(n, width) == ZeroPad(HexDigits(n), width)

RECURSIVE ParseHex(_)
ParseHex(cs) == IF cs = <<>> THEN 0 ELSE 16 * ParseHex(SubSeq(cs, 1, Len(cs) - 1)) + HexVal(cs[Len(cs)])

RECURSIVE DecDigits(_)
DecDigits(n) == IF n < 10 THEN <<48 + n>> ELSE Append(DecDigits(n \div 10), 48 + (n % 10))

DecText(x) == IF x < 0 THEN <<45>> \o DecDigits(0 - x) ELSE DecDigits(x)

RECURSIVE ParseDecDigits(_)
ParseDecDigits(cs) ==
    IF cs = <<>> THEN 0 ELSE 10 * ParseDecDigits(SubSeq(cs, 1, Len(cs) - 1)) + (cs[Len(cs)] - 48)

ParseDec(cs) == IF cs # <<>> /\ cs[1] = 45 THEN 0 - ParseDecDigits(Tail(cs)) ELSE ParseDecDigits(cs)

\* the "- { cmd: 0x{:02X}, string: \"{}\"}" lines of the Dialog and question writers
RECURSIVE StringsWrite(_)
StringsWrite(texts) ==
    IF texts = <<>> THEN Ok(<<>>)
    ELSE LET str  == vecu8_to_string(Head(texts).string)
             rest == StringsWrite(Tail(texts))
         IN  IF ~str.ok \/ ~rest.ok THEN Panic
             ELSE Ok(<<[cmd |-> HexText(Head(texts).cmd, 2), string |-> str.val]>> \o rest.val)

\* BKString::from_yaml over a YAML sequence
RECURSIVE StringsRead(_)
StringsRead(rows) ==
    IF rows = <<>> THEN Ok(<<>>)
    ELSE LET str  == YamlDoubleQuoted(Head(rows).string)
             rest == StringsRead(Tail(rows))
         IN  IF ~str.ok \/ ~rest.ok THEN Panic
             ELSE Ok(<<[cmd |-> ParseHex(Head(rows).cmd) % 256,
                        string |-> string_to_vecu8(str.val)]>> \o rest.val)

BinFile(b) == [kind |-> "bin", bytes |-> b, doc |-> <<>>]
YamlFile(d) == [kind |-> "yaml", bytes |-> <<>>, doc |-> d]

\* Asset::write: the file written at the asset's path (the sprite's PNG
\* previews and descriptor are written beside it and never read back)
Asset_write(a) ==
    CASE a.type = "Dialog" ->
            LET bottom == StringsWrite(a.v.bottom)
                top    == StringsWrite(a.v.top)
            IN  IF bottom.ok /\ top.ok
                THEN Ok(YamlFile([type |-> "Dialog", bottom |-> bottom.val, top |-> top.val]))
                ELSE Panic
      [] a.type \in {"QuizQuestion", "GruntyQuestion"} ->
            LET question == StringsWrite(a.v.question)
                options  == StringsWrite(a.v.options)
            IN  IF question.ok /\ options.ok
                THEN Ok(YamlFile([type |-> a.type, question |-> question.val,
                                  options |-> options.val]))
                ELSE Panic
      [] a.type = "DemoInput" ->
            Ok(YamlFile([type |-> "DemoInput", flag |-> HexText(a.v.frame1_flag, 2),
                         inputs |-> [k \in 1..Len(a.v.inputs) |->
                                        [x |-> DecText(a.v.inputs[k].x),
                                         y |-> DecText(a.v.inputs[k].y),
                                         buttons |-> HexText(a.v.inputs[k].buttons, 4),
                                         frames |-> DecText(a.v.inputs[k].frames)]]]))
      [] OTHER -> Ok(BinFile(a.v))

\* the read function AssetFolder::read picks for a row's type, applied to
\* the file at the row's path (a YAML file is never read as bytes in a run
\* of the model, nor a byte file as YAML)
Asset_read(type_name, file) ==
    CASE type_name = "Dialog" ->
            IF file.kind # "yaml" \/ file.doc.type # "Dialog" THEN Panic
            ELSE LET bottom == StringsRead(file.doc.bottom)
                     top    == StringsRead(file.doc.top)
                 IN  IF bottom.ok /\ top.ok
                     THEN Ok([type |-> "Dialog", fmt |-> "",
                              v |-> [bottom |-> bottom.val, top |-> top.val]])
                     ELSE Panic
      [] type_name \in {"QuizQuestion", "GruntyQuestion"} ->
            IF file.kind # "yaml" \/ file.doc.type # type_name THEN Panic
            ELSE LET q == StringsRead(file.doc.question)
                     a == StringsRead(file.doc.options)
                 IN  IF q.ok /\ a.ok /\ Len(a.val) >= 3
                     THEN Ok([type |-> type_name, fmt |-> "",
                              v |-> [question |-> q.val, options |-> SubSeq(a.val, 1, 3)]])
                     ELSE Panic
      [] type_name = "DemoInput" ->
            IF file.kind # "yaml" \/ file.doc.type # "DemoInput" THEN Panic
            ELSE Ok([type |-> "DemoInput", fmt |-> "",
                     v |-> [inputs |-> [k \in 1..Len(file.doc.inputs) |->
                                  [x |-> AsI8(AsU8(ParseDec(file.doc.inputs[k].x))),
                                   y |-> AsI8(AsU8(ParseDec(file.doc.inputs[k].y))),
                                   buttons |-> ParseHex(file.doc.inputs[k].buttons) % 65536,
                                   frames |-> ParseDec(file.doc.inputs[k].frames) % 256]],
                            frame1_flag |-> ParseHex(file.doc.flag) % 256]])
      [] OTHER ->
            IF file.kind # "bin" THEN Panic
            ELSE Ok([type |-> "Binary", fmt |-> "", v |-> file.bytes])

\* the type column of a files row, from Asset::get_type
TypeName(a) ==
    IF a.type # "Sprite" THEN [name |-> a.type, arg |-> 0]
    ELSE IF a.fmt = "Unknown" THEN [name |-> "Sprite_UNKNOWN", arg |-> a.code]
    ELSE [name |-> CASE a.fmt = "CI4" -> "Sprite_CI4" [] a.fmt = "CI8" -> "Sprite_CI8"
                     [] a.fmt = "I4" -> "Sprite_I4" [] a.fmt = "I8" -> "Sprite_I8"
                     [] a.fmt = "RGBA16" -> "Sprite_RGBA16" [] a.fmt = "RGBA32" -> "Sprite_RGBA32"
                     [] a.fmt = "IA4" -> "Sprite_IA4" [] OTHER -> "Sprite_IA8",
          arg |-> 0]

\* containing_folder of a payload file
ContainingFolder(a) ==
    CASE a.type = "Binary" -> "bin" [] a.type = "Dialog" -> "dialog"
      [] a.type = "GruntyQuestion" -> "grunty_q" [] a.type = "QuizQuestion" -> "quiz_q"
      [] a.type = "DemoInput" -> "demo" [] a.type = "Midi" -> "midi"
      [] a.type = "Model" -> "model" [] a.type = "LevelSetup" -> "lvl_setup"
      [] a.type = "Animation" -> "anim" [] OTHER -> "sprite"

\* elem_folder.join(format!("{:04X}{}", elem.uid, file_ext)), relative to the
\* output directory; the extension is fixed by the folder and the type name
RelativePath(elem) ==
    [folder |-> ContainingFolder(elem.data[1]), stem |-> HexText(elem.uid, 4),
     ext |-> TypeName(elem.data[1])]

\* the loop of AssetFolder::write over the entries that hold data
RECURSIVE WriteEntries(_, _, _)
WriteEntries(entries, rows, written) ==
    IF entries = <<>> THEN [ok |-> TRUE, rows |-> rows, files |-> written]
    ELSE LET elem == Head(entries)
         IN  IF elem.data = <<>> THEN WriteEntries(Tail(entries), rows, written)
             ELSE LET file == Asset_write(elem.data[1])
                      row  == [uid |-> HexText(elem.uid, 4),
                               type |-> TypeName(elem.data[1]),
                               compressed |-> IF elem.meta.c_flag THEN "true" ELSE "false",
                               flags |-> HexText(elem.meta.t_flag, 4),
                               relative_path |-> RelativePath(elem)]
                  IN  IF ~file.ok
                      THEN [ok |-> FALSE, rows |-> Append(rows, row), files |-> written]
                      ELSE WriteEntries(Tail(entries), Append(rows, row),
                               Append(written, [path |-> RelativePath(elem), file |-> file.val]))

\* the mutant: tbl_len counts the entries and one more slot than the header
AssetFolder_write_two_more(entries) ==
    LET w == WriteEntries(entries, <<>>, <<>>)
    IN  [ok |-> w.ok,
         manifest |-> [tbl_len |-> HexText(Len(entries) + 2, 1), files |-> w.rows],
         files |-> w.files]

AssetFolder_write(entries) ==
    LET w == WriteEntries(entries, <<>>, <<>>)
    IN  [ok |-> w.ok,
         manifest |-> [tbl_len |-> HexText(Len(entries) + 1, 1), files |-> w.rows],
         files |-> w.files]

\* AssetEntry::from_yaml of a files row
AssetEntry_from_yaml(row) ==
    [uid |-> ParseHex(row.uid), seg |-> 0,
     meta |-> [offset |-> 0, c_flag |-> row.compressed = "true",
               t_flag |-> ParseHex(row.flags) % 65536],
     data |-> <<>>]

\* asset_meta.iter().fold(0, max of a.uid)
RECURSIVE MaxId(_)
MaxId(asset_meta) ==
    IF asset_meta = <<>> THEN 0
    ELSE LET m == MaxId(SubSeq(asset_meta, 1, Len(asset_meta) - 1))
             u == asset_meta[Len(asset_meta)].uid
         IN  IF m > u THEN m ELSE u

\* the mutant: resize_with without the test of the length before it, which
\* cuts a longer folder down to expect_len
ResizeWithAlways(entries, expect_len) ==
    IF Len(entries) < expect_len
    THEN entries \o [k \in 1..(expect_len - Len(entries)) |-> AssetEntry_new(k - 1)]
    ELSE SubSeq(entries, 1, expect_len)

\* self.assets.resize_with(expect_len, ..): the closure numbers the entries
\* it appends from 0
ResizeWith(entries, expect_len) ==
    IF Len(entries) < expect_len
    THEN entries \o [k \in 1..(expect_len - Len(entries)) |-> AssetEntry_new(k - 1)]
    ELSE entries

\* for a in asset_meta { self.assets[a.uid] = a }
RECURSIVE PlaceMeta(_, _)
PlaceMeta(entries, asset_meta) ==
    IF asset_meta = <<>> THEN entries
    ELSE PlaceMeta([entries EXCEPT ![Head(asset_meta).uid + 1] = Head(asset_meta)],
                   Tail(asset_meta))

\* the file at a relative path, if one was written there
FileAt(written, path) ==
    LET hits == {k \in 1..Len(written) : written[k].path = path}
    IN  IF hits = {} THEN Panic
        ELSE Ok(written[CHOOSE k \in hits : \A h \in hits : k >= h].file)

\* for y in doc["files"] { self.assets[uid].data = Some(read(relative_path)) }
RECURSIVE ReadFiles(_, _, _)
ReadFiles(entries, rows, written) ==
    IF rows = <<>> THEN Ok(entries)
    ELSE LET y    == Head(rows)
             file == FileAt(written, y.relative_path)
             data == IF file.ok THEN Asset_read(y.type.name, file.val) ELSE Panic
         IN  IF ~data.ok THEN Panic
             ELSE ReadFiles([entries EXCEPT ![ParseHex(y.uid) + 1].data = <<data.val>>],
                            Tail(rows), written)

\* the mutant: row k of the files sequence becomes entry k - 1 of the folder
AssetFolder_read_in_row_order(entries, doc, written) ==
    LET tbl_len == ParseHex(doc.tbl_len)
        n       == IF tbl_len < Len(doc.files) THEN Len(doc.files) ELSE tbl_len
    IN  Ok([k \in 1..n |->
               IF k > Len(doc.files) THEN AssetEntry_new(k - 1)
               ELSE [AssetEntry_from_yaml(doc.files[k]) EXCEPT
                        !.uid = k - 1,
                        !.data = <<Asset_read(doc.files[k].type.name,
                                              FileAt(written, doc.files[k].relative_path).val).val>>]])

AssetFolder_read(entries, doc, written) ==
    LET asset_meta == [k \in 1..Len(doc.files) |-> AssetEntry_from_yaml(doc.files[k])]
        tbl_len    == ParseHex(doc.tbl_len)
        max_id     == MaxId(asset_meta)
        expect_len == IF tbl_len < max_id + 1 THEN max_id + 1 ELSE tbl_len
    IN  ReadFiles(PlaceMeta(ResizeWith(entries, expect_len), asset_meta), doc.files, written)

\* an asset held by an entry, serialised: a sprite and the opaque kinds give
\* back the bytes they were built from
EntryBytes(a) ==
    IF a.type \in {"Dialog", "QuizQuestion", "GruntyQuestion", "DemoInput"}
    THEN Asset_to_bytes(a.type, a.v)
    ELSE a.v

\* comp_bins of AssetFolder::to_bytes
CompBin(a) ==
    IF a.data = <<>> THEN <<>>
    ELSE IF a.meta.c_flag THEN bk_zip(EntryBytes(a.data[1])) ELSE EntryBytes(a.data[1])

\* the mutant: an entry's offset counts its own bin too
RECURSIVE OffsetOfInclusive(_, _)
OffsetOfInclusive(comp_bins, k) ==
    IF k < 1 THEN 0 ELSE OffsetOfInclusive(comp_bins, k - 1) + Len(comp_bins[k])

\* the fold that updates the offsets: entry k starts where the bins before it end
RECURSIVE OffsetOf(_, _)
OffsetOf(comp_bins, k) ==
    IF k <= 1 THEN 0 ELSE OffsetOf(comp_bins, k - 1) + Len(comp_bins[k - 1])

\* AssetFolder::to_bytes: the bytes returned and self.assets afterwards
AssetFolder_to_bytes(entries) ==
    IF entries = <<>> THEN [ok |-> FALSE, bytes |-> <<>>, assets |-> entries]
    ELSE LET pushed    == IF entries[Len(entries)].data # <<>>
                          THEN Append(entries, AssetEntry_new(Len(entries)))
                          ELSE entries
             comp_bins == [k \in 1..Len(pushed) |-> CompBin(pushed[k])]
             moved     == [k \in 1..Len(pushed) |->
                              [pushed[k] EXCEPT !.meta.offset = OffsetOf(comp_bins, k)]]
         IN  [ok |-> TRUE,
              bytes |-> U32BE(Len(moved)) \o <<255, 255, 255, 255>>
                        \o Flatten([k \in 1..Len(moved) |-> AssetMeta_to_bytes(moved[k].meta)])
                        \o Flatten(comp_bins),
              assets |-> SubSeq(moved, 1, Len(moved) - 1)]

\* decomp_buffer.resize((decomp_buffer.len() + 15) & !15, 0)
Pad16(b) == b \o [k \in 1..((16 - (Len(b) % 16)) % 16) |-> 0]

-----------------------------------------------------------------------------
(* Idle values of the variable groups a specification does not use.         *)

IdleText  == /\ bk_string = <<>> /\ yaml_text = <<>> /\ yaml_str = <<>>
             /\ bk_parsed = <<>> /\ re_text = <<>>
IdleCodec == /\ kind = "none" /\ payload = <<>> /\ records = <<>>
             /\ asset = <<>> /\ out_payload = <<>> /\ seg_indx = 0
NoManifest == [tbl_len |-> <<>>, files |-> <<>>]
IdleArch  == /\ in_bytes = <<>> /\ assets = <<>> /\ manifest = NoManifest
             /\ files = <<>> /\ out_bytes = <<>>
IdleTex   == /\ texture = <<>> /\ rgba32 = <<>>

-----------------------------------------------------------------------------
(* SpecText: a BKString buffer is written into an asset YAML file, loaded   *)
(* back and converted; or the emitted text is converted back directly.      *)

\* bytes a BKString buffer is drawn from: NUL, a control byte, '"', 'A',
\* '\', a non-ASCII byte and the squiggle byte 0xFD
TextBytes == {0, 31, 34, 65, 92, 128, 253}

\* code points a YAML string is drawn from: 'A', U+00BD (C2 BD),
\* U+00C3 (C3 83) and U+00FD (C3 BD)
TextChars == {65, 189, 195, 253}

InitText ==
    /\ IdleCodec /\ IdleArch /\ IdleTex
    /\ bk_parsed = <<>> /\ re_text = <<>> /\ yaml_text = <<>>
    /\ \/ /\ pc = "held"
          /\ bk_string \in SeqsUpTo(TextBytes, MaxStrLen)
          /\ yaml_str = <<>>
       \/ /\ pc = "loaded"
          /\ bk_string = <<>>
          /\ yaml_str \in SeqsUpTo(TextChars, MaxStrLen)

\* Dialog::write and the question writers: string: \"{}\" of vecu8_to_string
WriteString ==
    /\ pc = "held"
    /\ LET r == vecu8_to_string(bk_string)
       IN  IF r.ok THEN /\ yaml_text' = r.val /\ pc' = "written"
                   ELSE /\ yaml_text' = yaml_text /\ pc' = "panic"
    /\ UNCHANGED <<bk_string, yaml_str, bk_parsed, re_text, codecVars, archVars, texVars>>

\* YamlLoader::load_from_str(..).unwrap() and yaml["string"].as_str().unwrap()
LoadString ==
    /\ pc = "written"
    /\ LET r == YamlDoubleQuoted(yaml_text)
       IN  IF r.ok THEN /\ yaml_str' = r.val /\ pc' = "loaded"
                   ELSE /\ yaml_str' = yaml_str /\ pc' = "panic"
    /\ UNCHANGED <<bk_string, yaml_text, bk_parsed, re_text, codecVars, archVars, texVars>>

\* BKString::from_yaml
BKStringFromYaml ==
    /\ pc = "loaded"
    /\ bk_parsed' = string_to_vecu8(yaml_str)
    /\ pc' = "parsed"
    /\ UNCHANGED <<bk_string, yaml_text, yaml_str, re_text, codecVars, archVars, texVars>>

\* string_to_vecu8 applied to the emitted text itself
ReparseEmitted ==
    /\ pc = "written"
    /\ bk_parsed' = string_to_vecu8(yaml_text)
    /\ pc' = "reparsed"
    /\ UNCHANGED <<bk_string, yaml_text, yaml_str, re_text, codecVars, archVars, texVars>>

\* vecu8_to_string applied to the result
ReEmit ==
    /\ pc = "reparsed"
    /\ LET r == vecu8_to_string(bk_parsed)
       IN  IF r.ok THEN /\ re_text' = r.val /\ pc' = "reemitted"
                   ELSE /\ re_text' = re_text /\ pc' = "panic"
    /\ UNCHANGED <<bk_string, yaml_text, yaml_str, bk_parsed, codecVars, archVars, texVars>>

NextText == WriteString \/ LoadString \/ BKStringFromYaml \/ ReparseEmitted \/ ReEmit

SpecText == InitText /\ [][NextText]_vars

-----------------------------------------------------------------------------
(* Claims about the text codec.                                             *)

\* C8: every BKString buffer the writers emit comes back unchanged from
\* vecu8_to_string, the YAML double-quoted scalar and string_to_vecu8.
C8_BytesTextBytes ==
    (pc = "parsed" /\ bk_string # <<>>) => bk_parsed = bk_string

\* C9: for every text s that vecu8_to_string produces,
\* vecu8_to_string(string_to_vecu8(s)) = s.
C9_TextBytesText ==
    pc = "reemitted" => re_text = yaml_text

\* the text holds an escape and a plain character and came back
C9_Witness ==
    /\ pc = "reemitted"
    /\ \E i \in 1..Len(yaml_text) : yaml_text[i] = 92
    /\ \E i \in 1..Len(yaml_text) : yaml_text[i] = 65
    /\ re_text = yaml_text

\* the positions (1-based) where the two bytes C3 BD stand in a buffer
SquigAt(b) == {i \in 1..(Len(b) - 1) : b[i] = 195 /\ b[i + 1] = 189}

\* a buffer read left to right, each C3 BD giving FD, every other byte itself
RECURSIVE SquigsReplaced(_)
SquigsReplaced(b) ==
    IF b = <<>> THEN <<>>
    ELSE IF Len(b) >= 2 /\ b[1] = 195 /\ b[2] = 189
         THEN <<253>> \o SquigsReplaced(SubSeq(b, 3, Len(b)))
         ELSE <<Head(b)>> \o SquigsReplaced(Tail(b))

\* C10: string_to_vecu8 replaces each C3 BD by FD, keeps every other byte in
\* order and appends one 0x00: length = input length - occurrences + 1.
C10_SquigCollapse ==
    pc = "parsed" =>
        /\ bk_parsed = Append(SquigsReplaced(AsBytes(yaml_str)), 0)
        /\ Len(bk_parsed) = Len(AsBytes(yaml_str)) - Cardinality(SquigAt(AsBytes(yaml_str))) + 1

\* two squiggles and another two-byte character were converted
C10_Witness ==
    /\ pc = "parsed"
    /\ Cardinality(SquigAt(AsBytes(yaml_str))) = 2
    /\ Len(AsBytes(yaml_str)) > 4
    /\ Len(bk_parsed) = Len(AsBytes(yaml_str)) - 1

-----------------------------------------------------------------------------
(* SpecCodec: one payload is parsed by a typed codec's from_bytes and       *)
(* serialised again by its to_bytes.                                        *)

MaxDialogTail == 6  \* most bytes drawn after the Dialog prefix 01 03 00
MaxRecords == 4     \* most BKString records laid out in a question payload
MaxInputs == 2      \* most 6-byte records laid out in a demo payload

DialogBytes == {0, 1, 2, 65}

\* BKString records a question payload is laid out from
RecordSet == [cmd : {1, 128}, string : {<<>>, <<65, 0>>}]

\* the on-disk layout of a sequence of records: (cmd, len, bytes[len]) each
RecordLayout(recs) ==
    Flatten([k \in 1..Len(recs) |->
                <<recs[k].cmd, Len(recs[k].string)>> \o recs[k].string])

\* 6-byte demo records (x, y, buttons hi, buttons lo, frames, pad)
DemoRecordSet == {<<x, 1, 128, 1, 2, pad>> : x \in {0, 255}, pad \in {0, 1}}

DemoPayloads ==
    SeqsUpTo({0, 6}, 3)
    \cup {U32BE(h) \o Flatten(recs) \o trailing :
             recs \in SeqsUpTo(DemoRecordSet, MaxInputs),
             h \in {6, 12},
             trailing \in {<<>>, <<9>>}}

InitCodec ==
    /\ IdleText /\ IdleArch /\ IdleTex
    /\ pc = "raw"
    /\ asset = <<>> /\ out_payload = <<>> /\ seg_indx = 0
    /\ \/ /\ kind = "Dialog"
          /\ records = <<>>
          /\ payload \in {<<1, 3, 0>> \o t : t \in SeqsUpTo(DialogBytes, MaxDialogTail)}
       \/ /\ kind \in {"QuizQuestion", "GruntyQuestion"}
          /\ records \in {r \in SeqsUpTo(RecordSet, MaxRecords) : Len(r) >= 2}
          /\ \E trailing \in {<<>>, <<7>>} :
                payload = (IF kind = "QuizQuestion" THEN QuizPrefix ELSE GruntyPrefix)
                          \o <<Len(records)>> \o RecordLayout(records) \o trailing
       \/ /\ kind = "DemoInput"
          /\ records = <<>>
          /\ payload \in DemoPayloads

\* the from_bytes call: the value returned, or the panic
Parsed(r) ==
    /\ IF r.ok THEN /\ asset' = r.val /\ pc' = "parsed_asset"
               ELSE /\ asset' = asset /\ pc' = "panic"
    /\ UNCHANGED <<kind, payload, records, out_payload, seg_indx, textVars, archVars, texVars>>

DialogFromBytes == pc = "raw" /\ kind = "Dialog" /\ Parsed(Dialog_from_bytes(payload))
QuizFromBytes   == pc = "raw" /\ kind = "QuizQuestion" /\ Parsed(QuizQuestion_from_bytes(payload))
GruntyFromBytes == pc = "raw" /\ kind = "GruntyQuestion" /\ Parsed(GruntyQuestion_from_bytes(payload))
DemoFromBytes   == pc = "raw" /\ kind = "DemoInput" /\ Parsed(DemoButtonFile_from_bytes(payload))

ToBytes ==
    /\ pc = "parsed_asset"
    /\ out_payload' = Asset_to_bytes(kind, asset)
    /\ pc' = "serialised"
    /\ UNCHANGED <<kind, payload, records, asset, seg_indx, textVars, archVars, texVars>>

NextCodec == DialogFromBytes \/ QuizFromBytes \/ GruntyFromBytes \/ DemoFromBytes \/ ToBytes

SpecCodec == InitCodec /\ [][NextCodec]_vars

-----------------------------------------------------------------------------
(* Claims about the typed codecs.                                           *)

\* C5: for every byte sequence b beginning 01 03 00 that Dialog::from_bytes
\* accepts, bytes after the top records included, to_bytes(from_bytes(b)) = b.
C5_DialogRoundTrip ==
    (kind = "Dialog" /\ pc = "serialised") => out_payload = payload

\* C6: for every payload DemoButtonFile::from_bytes accepts (any length, any
\* pad bytes, any trailing bytes), to_bytes(from_bytes(bytes)) = bytes.
C6_DemoRoundTrip ==
    (kind = "DemoInput" /\ pc = "serialised") => out_payload = payload

\* C7: a question payload with count byte n >= 3 and n well-formed records
\* parses to the first n-3 records as question and the last 3 as options, in
\* order, and to_bytes emits the 5-byte prefix, n, and the same n records.
C7_QuestionSplit ==
    (kind \in {"QuizQuestion", "GruntyQuestion"} /\ Len(records) >= 3 /\ pc # "raw") =>
        /\ pc # "panic"
        /\ asset.question = SubSeq(records, 1, Len(records) - 3)
        /\ asset.options = SubSeq(records, Len(records) - 2, Len(records))
        /\ pc = "serialised" =>
              out_payload = (IF kind = "QuizQuestion" THEN <<1, 1, 2, 5, 0>> ELSE <<1, 3, 0, 5, 0>>)
                            \o <<Len(records)>> \o RecordLayout(records)

\* four distinct-looking records: one question record, three options
C7_Witness ==
    /\ kind = "QuizQuestion" /\ pc = "serialised"
    /\ Len(records) = 4
    /\ records[1] # records[2] /\ records[3] # records[4]
    /\ Len(asset.question) = 1 /\ asset.question[1] = records[1]
    /\ Len(asset.options) = 3

-----------------------------------------------------------------------------
(* Spec: extract (AssetFolder::from_bytes, write) followed by construct     *)
(* (AssetFolder::new, read, to_bytes, the driver's padding) on one archive. *)

MaxSlots == 5       \* most slots of an archive drawn for its flag stream
MaxRun == 7         \* most slots of an archive of flags 0 and 3 only
MaxTyped == 2       \* most segment-4 slots of an archive of typed payloads

\* an archive file laid out from slot descriptions (t_flag, c_flag, stored
\* bytes): the slot count with the closing slot, FF FF FF FF, the table with
\* the closing slot (offset = size of the data region, flag 4), the data
RECURSIVE StoredBefore(_, _)
StoredBefore(slots, k) ==
    IF k <= 1 THEN 0 ELSE StoredBefore(slots, k - 1) + Len(slots[k - 1].bin)

ArchiveOf(slots) ==
    U32BE(Len(slots) + 1) \o <<255, 255, 255, 255>>
    \o Flatten([k \in 1..Len(slots) |->
                   AssetMeta_to_bytes([offset |-> StoredBefore(slots, k),
                                       c_flag |-> slots[k].c_flag,
                                       t_flag |-> slots[k].t_flag])])
    \o AssetMeta_to_bytes([offset |-> StoredBefore(slots, Len(slots) + 1),
                           c_flag |-> FALSE, t_flag |-> 4])
    \o Flatten([k \in 1..Len(slots) |-> slots[k].bin])

\* a payload every segment accepts: opaque in segments 0, 2, 5, 6 and above,
\* a sprite of unknown format in segments 1 and 3, an empty Dialog in 4
AnyPayload == <<1, 3, 0, 0, 0>>

PlainSlot(t_flag) ==
    [t_flag |-> t_flag, c_flag |-> FALSE, bin |-> IF t_flag = 4 THEN <<>> ELSE AnyPayload]

StoredSlot(t_flag, c_flag, plain) ==
    [t_flag |-> t_flag, c_flag |-> c_flag, bin |-> IF c_flag THEN bk_zip(plain) ELSE plain]

\* archives whose slot flags range over empty, "continue" and both parities
FlagArchives ==
    {ArchiveOf([k \in 1..Len(fs) |-> PlainSlot(fs[k])]) : fs \in SeqsUpTo({0, 2, 3, 4}, MaxSlots)}

\* archives of many parity changes
RunArchives ==
    {ArchiveOf([k \in 1..Len(fs) |-> PlainSlot(fs[k])]) : fs \in SeqsUpTo({0, 3}, MaxRun)}

\* segment-4 payloads: a Dialog, a Dialog with a byte above 0x7F, a Dialog
\* with an empty string, a Dialog followed by one more byte, a QuizQuestion
\* of three options, a demo of one record, a demo whose second record has a
\* non-zero last byte
TypedPayloads ==
    { <<1, 3, 0, 1, 1, 2, 65, 0, 0>>,
      <<1, 3, 0, 1, 1, 2, 128, 0, 0>>,
      <<1, 3, 0, 1, 1, 0, 0>>,
      <<1, 3, 0, 0, 0, 1>>,
      <<1, 1, 2, 5, 0, 3, 1, 2, 65, 0, 2, 2, 65, 0, 3, 2, 65, 0>>,
      <<0, 0, 0, 6, 0, 1, 128, 1, 2, 0>>,
      <<0, 0, 0, 12, 0, 1, 128, 1, 2, 0, 255, 1, 0, 1, 2, 1>> }

\* slots 0..2 bring the counter to 3; the slots after them are in segment 4
TypedSlots ==
    {StoredSlot(2, c, b) : c \in BOOLEAN, b \in TypedPayloads} \cup {PlainSlot(4)}

TypedArchives ==
    {ArchiveOf(<<PlainSlot(0), PlainSlot(3), PlainSlot(0), StoredSlot(3, c, b)>> \o more) :
        c \in BOOLEAN, b \in TypedPayloads, more \in SeqsUpTo(TypedSlots, MaxTyped - 1)}

\* the archive whose header stores the count 0: no slot record, no data
HeaderOnlyArchives == {U32BE(0) \o <<255, 255, 255, 255>>}

Archives == FlagArchives \cup RunArchives \cup TypedArchives \cup HeaderOnlyArchives

Init ==
    /\ IdleText /\ IdleCodec /\ IdleTex
    /\ pc = "start"
    /\ in_bytes \in Archives
    /\ assets = <<>> /\ manifest = NoManifest /\ files = <<>> /\ out_bytes = <<>>

\* extract: let af = AssetFolder::from_bytes(&in_bytes)
ExtractFromBytes ==
    /\ pc = "start"
    /\ LET af == AssetFolder_from_bytes(in_bytes)
       IN  IF af.ok THEN /\ assets' = af.val /\ pc' = "parsed"
                    ELSE /\ assets' = assets /\ pc' = "panic"
    /\ UNCHANGED <<in_bytes, manifest, files, out_bytes, textVars, codecVars, texVars>>

\* extract: af.write(out_path)
ExtractWrite ==
    /\ pc = "parsed"
    /\ LET w == AssetFolder_write(assets)
       IN  /\ manifest' = w.manifest
           /\ files' = w.files
           /\ pc' = IF w.ok THEN "extracted" ELSE "panic"
    /\ UNCHANGED <<in_bytes, assets, out_bytes, textVars, codecVars, texVars>>

\* construct: let mut af = AssetFolder::new(); af.read(in_path)
ConstructRead ==
    /\ pc = "extracted"
    /\ LET af == AssetFolder_read(<<>>, manifest, files)
       IN  IF af.ok THEN /\ assets' = af.val /\ pc' = "read"
                    ELSE /\ assets' = assets /\ pc' = "panic"
    /\ UNCHANGED <<in_bytes, manifest, files, out_bytes, textVars, codecVars, texVars>>

\* construct: af.to_bytes(), the resize to a multiple of 16, write_all
ConstructToBytes ==
    /\ pc = "read"
    /\ LET t == AssetFolder_to_bytes(assets)
       IN  IF t.ok THEN /\ out_bytes' = Pad16(t.bytes) /\ assets' = t.assets
                        /\ pc' = "constructed"
                   ELSE /\ out_bytes' = out_bytes /\ assets' = assets /\ pc' = "panic"
    /\ UNCHANGED <<in_bytes, manifest, files, textVars, codecVars, texVars>>

Next == ExtractFromBytes \/ ExtractWrite \/ ConstructRead \/ ConstructToBytes

Spec == Init /\ [][Next]_vars

-----------------------------------------------------------------------------
(* Claims about the archive container.                                      *)

\* C1: for every archive extract accepts, extract followed by construct
\* writes the archive's bytes zero-padded to a multiple of 16.
C1_ArchiveRoundTrip == pc = "constructed" => out_bytes = Pad16(in_bytes)

\* assets is the list AssetFolder::from_bytes returned
Walked == pc \in {"parsed", "extracted"}

FlagBit2(t_flag) == (t_flag \div 2) % 2
NonEmptySlot(k) == assets[k].meta.t_flag # 4
NonEmptyBefore(k) == {j \in 1..(k - 1) : NonEmptySlot(j)}
LastNonEmptyBefore(k) == CHOOSE j \in NonEmptyBefore(k) : \A h \in NonEmptyBefore(k) : h <= j

\* the counter when the walk reaches slot k: what the last non-empty slot
\* before it recorded, 0 if there is none
CounterBefore(k) == IF NonEmptyBefore(k) = {} THEN 0 ELSE assets[LastNonEmptyBefore(k)].seg

\* the transition rule, from a given prev_type_flag
RuleStep(prev_type_flag, t_flag) ==
    IF t_flag # 2 /\ FlagBit2(prev_type_flag) # FlagBit2(t_flag) THEN 1 ELSE 0

\* the flag of the slot where the counter reached its value before slot k
\* (the first non-empty slot that recorded it), 3 while it is still 0
FlagAtLastAdvance(k) ==
    IF CounterBefore(k) = 0 THEN 3
    ELSE LET at == {j \in NonEmptyBefore(k) : assets[j].seg = CounterBefore(k)}
         IN  assets[CHOOSE j \in at : \A h \in at : j <= h].meta.t_flag

\* C2 as stated: at every non-empty slot after the first, the counter
\* advances by 1 iff type_flag != 2 and bit 2 of the flag differs from bit 2
\* of the previous non-empty slot's flag, and is unchanged otherwise.
C2_PrevSlotRule ==
    Walked =>
        \A k \in 1..Len(assets) :
            (NonEmptySlot(k) /\ NonEmptyBefore(k) # {}) =>
                assets[k].seg = CounterBefore(k)
                    + RuleStep(assets[LastNonEmptyBefore(k)].meta.t_flag, assets[k].meta.t_flag)

\* C2: at every non-empty slot the counter advances by 1 iff type_flag != 2
\* and bit 2 of the flag differs from bit 2 of prev_type_flag, where
\* prev_type_flag is the flag of the slot at which the counter last advanced
\* (3 before any advance); at every other slot the counter is unchanged.
C2_LastAdvanceRule ==
    Walked =>
        \A k \in 1..Len(assets) :
            NonEmptySlot(k) =>
                assets[k].seg = CounterBefore(k)
                    + RuleStep(FlagAtLastAdvance(k), assets[k].meta.t_flag)

\* a slot advanced the counter although the non-empty slot before it, of
\* flag 2, has the same bit 2
C2_Witness ==
    /\ Walked
    /\ \E k \in 1..Len(assets) :
          /\ NonEmptySlot(k) /\ NonEmptyBefore(k) # {}
          /\ assets[LastNonEmptyBefore(k)].meta.t_flag = 2
          /\ FlagBit2(assets[k].meta.t_flag) = 1
          /\ assets[k].seg = CounterBefore(k) + 1

\* C3 as stated: every entry's recorded segment index lies in 0..6.
C3_SegmentInZeroToSix ==
    Walked => \A k \in 1..Len(assets) : assets[k].seg \in 0..6

\* C3: an empty entry records segment 0, and a non-empty entry records a
\* segment between 0 and the number of slots up to and including it whose
\* flag is neither 4 nor 2; the index is not bounded by 6.
C3_SegmentBounds ==
    Walked =>
        \A k \in 1..Len(assets) :
            IF NonEmptySlot(k)
            THEN assets[k].seg \in
                    0..Cardinality({j \in 1..k : assets[j].meta.t_flag \notin {2, 4}})
            ELSE assets[k].seg = 0

\* the seventh of seven non-empty slots records segment 7
C3_Witness ==
    /\ Walked
    /\ Len(assets) = 7
    /\ \A k \in 1..7 : NonEmptySlot(k)
    /\ assets[7].seg = 7

\* C4 as stated: the walk starts with counter 0 and prev_type_flag 0, so the
\* first non-empty slot advances the counter iff its flag is not 2 and has
\* bit 2 set, and stays in segment 0 when bit 2 is clear.
C4_StartPrevZero ==
    Walked =>
        \A k \in 1..Len(assets) :
            (NonEmptySlot(k) /\ NonEmptyBefore(k) = {}) =>
                assets[k].seg = RuleStep(0, assets[k].meta.t_flag)

\* C4: the walk starts with counter 0 and prev_type_flag 3, so the first
\* non-empty slot goes to segment 1 when bit 2 of its flag is clear and
\* stays in segment 0 when bit 2 is set.
C4_StartPrevThree ==
    Walked =>
        \A k \in 1..Len(assets) :
            (NonEmptySlot(k) /\ NonEmptyBefore(k) = {}) =>
                assets[k].seg = RuleStep(3, assets[k].meta.t_flag)

\* the first non-empty slot has flag 0 and was put in segment 1
C4_Witness ==
    /\ Walked
    /\ \E k \in 1..Len(assets) :
          /\ NonEmptySlot(k) /\ NonEmptyBefore(k) = {}
          /\ assets[k].meta.t_flag = 0
          /\ assets[k].seg = 1

-----------------------------------------------------------------------------
(* SpecTexture: a buffer of RGBA5551 pixels is expanded by                  *)
(* Texture::rgba16_to_rgba32.                                               *)

MaxPixels == 3      \* most 16-bit pixels of a texture

\* 0x0000, 0xFFFF, 0x07C1, 0xF800, 0x003E and 0x0001
Rgba16Values == {<<0, 0>>, <<255, 255>>, <<7, 193>>, <<248, 0>>, <<0, 62>>, <<0, 1>>}

InitTexture ==
    /\ IdleText /\ IdleCodec /\ IdleArch
    /\ pc = "texels"
    /\ \E pixels \in SeqsUpTo(Rgba16Values, MaxPixels), odd \in {<<>>, <<9>>} :
          texture = Flatten(pixels) \o odd
    /\ rgba32 = <<>>

Rgba16ToRgba32 ==
    /\ pc = "texels"
    /\ rgba32' = Texture_rgba16_to_rgba32(texture)
    /\ pc' = "decoded"
    /\ UNCHANGED <<texture, textVars, codecVars, archVars>>

NextTexture == Rgba16ToRgba32

SpecTexture == InitTexture /\ [][NextTexture]_vars

\* pixel k (from 1) of the input and of the output
TexelIn(k) == SubSeq(texture, 2 * k - 1, 2 * k)
TexelOut(k) == SubSeq(rgba32, 4 * k - 3, 4 * k)

\* C11 as stated: 0x0000 expands to [0,0,0,0], 0xFFFF to [255,255,255,255]
\* and 0x07C1 to [0,0,255,255].
C11_Rgba16Examples ==
    pc = "decoded" =>
        \A k \in 1..(Len(texture) \div 2) :
            /\ TexelIn(k) = <<0, 0>> => TexelOut(k) = <<0, 0, 0, 0>>
            /\ TexelIn(k) = <<255, 255>> => TexelOut(k) = <<255, 255, 255, 255>>
            /\ TexelIn(k) = <<7, 193>> => TexelOut(k) = <<0, 0, 255, 255>>

\* C11: 0x0000 expands to [0,0,0,0], 0xFFFF to [251,251,251,255] and 0x07C1
\* (green field 31, alpha 1) to [0,251,0,255]: a 5-bit channel c becomes
\* (c << 3) | (c >> 3), so a full channel is 251.
C11_Rgba16Expansion ==
    pc = "decoded" =>
        /\ Len(rgba32) = 4 * (Len(texture) \div 2)
        /\ \A k \in 1..(Len(texture) \div 2) :
            /\ TexelIn(k) = <<0, 0>> => TexelOut(k) = <<0, 0, 0, 0>>
            /\ TexelIn(k) = <<255, 255>> => TexelOut(k) = <<251, 251, 251, 255>>
            /\ TexelIn(k) = <<7, 193>> => TexelOut(k) = <<0, 251, 0, 255>>

\* the three pixels of the claim, expanded
C11_Witness == pc = "decoded" /\ texture = <<0, 0, 255, 255, 7, 193>>

-----------------------------------------------------------------------------
(* SpecFolder: the AssetFolder methods called on one folder: from_bytes or  *)
(* new, then read of a directory, then to_bytes.                            *)

MaxUid == 2         \* largest uid named by a row of a directory's manifest
MaxRows == 2        \* most rows of a directory's manifest
MaxFolderSlots == 2 \* most slots of an archive parsed before a read

\* the payload file of row k (from 1): k bytes, different for every row
RowBytes(k) == [i \in 1..k |-> 16 * k + i]

\* a directory laid out from a table length and row descriptions (uid, type,
\* compressed, flags): assets.yaml and one byte file per row
DirOf(tbl_len, rows) ==
    LET path(k) == [folder |-> "bin", stem |-> HexText(k, 4),
                    ext |-> [name |-> rows[k].type, arg |-> 0]]
    IN  [manifest |->
            [tbl_len |-> HexText(tbl_len, 1),
             files |-> [k \in 1..Len(rows) |->
                          [uid |-> HexText(rows[k].uid, 4),
                           type |-> [name |-> rows[k].type, arg |-> 0],
                           compressed |-> IF rows[k].compressed THEN "true" ELSE "false",
                           flags |-> HexText(rows[k].flags, 4),
                           relative_path |-> path(k)]]],
         files |-> [k \in 1..Len(rows) |-> [path |-> path(k), file |-> BinFile(RowBytes(k))]]]

\* directories whose rows name any uids in any order
UidDirs ==
    {DirOf(n, [k \in 1..Len(uids) |->
                  [uid |-> uids[k], type |-> "Binary", compressed |-> FALSE, flags |-> 3]]) :
        n \in {0, 1, MaxUid + 2}, uids \in SeqsUpTo(0..MaxUid, MaxRows)}

\* directories of one row, of any type name, compression and flags
RowDirs ==
    {DirOf(2, <<[uid |-> 0, type |-> t, compressed |-> c, flags |-> f]>>) :
        t \in {"Binary", "Model", "Sprite_CI4", "Foo"}, c \in BOOLEAN, f \in {0, 2, 3, 4}}

Dirs == UidDirs \cup RowDirs

FolderArchives ==
    {ArchiveOf([k \in 1..Len(fs) |-> PlainSlot(fs[k])]) : fs \in SeqsUpTo({0, 4}, MaxFolderSlots)}

\* AssetFolder::new()
InitFolder ==
    /\ IdleText /\ IdleCodec /\ IdleTex
    /\ pc = "new"
    /\ in_bytes = <<>> /\ assets = <<>> /\ manifest = NoManifest /\ files = <<>>
    /\ out_bytes = <<>>

\* let af = AssetFolder::from_bytes(..), in place of new()
FolderFromBytes ==
    /\ pc = "new"
    /\ \E archive \in FolderArchives :
          /\ in_bytes' = archive
          /\ LET af == AssetFolder_from_bytes(archive)
             IN  IF af.ok THEN /\ assets' = af.val /\ pc' = "parsed"
                          ELSE /\ assets' = assets /\ pc' = "panic"
    /\ UNCHANGED <<manifest, files, out_bytes, textVars, codecVars, texVars>>

\* af.read(..) of a directory
FolderRead ==
    /\ pc \in {"new", "parsed"}
    /\ \E dir \in Dirs :
          /\ manifest' = dir.manifest
          /\ files' = dir.files
          /\ LET af == AssetFolder_read(assets, dir.manifest, dir.files)
             IN  IF af.ok THEN /\ assets' = af.val /\ pc' = "read"
                          ELSE /\ assets' = assets /\ pc' = "panic"
    /\ UNCHANGED <<in_bytes, out_bytes, textVars, codecVars, texVars>>

\* af.to_bytes()
FolderToBytes ==
    /\ pc \in {"new", "parsed", "read"}
    /\ LET t == AssetFolder_to_bytes(assets)
       IN  IF t.ok THEN /\ out_bytes' = t.bytes /\ assets' = t.assets /\ pc' = "serialised"
                   ELSE /\ out_bytes' = out_bytes /\ assets' = assets /\ pc' = "panic"
    /\ UNCHANGED <<in_bytes, manifest, files, textVars, codecVars, texVars>>

\* af.to_bytes() once more, on the folder the first call left
FolderToBytesAgain ==
    /\ pc = "serialised"
    /\ LET t == AssetFolder_to_bytes(assets)
       IN  IF t.ok THEN /\ out_bytes' = t.bytes /\ assets' = t.assets
                        /\ pc' = "serialised_again"
                   ELSE /\ out_bytes' = out_bytes /\ assets' = assets /\ pc' = "panic"
    /\ UNCHANGED <<in_bytes, manifest, files, textVars, codecVars, texVars>>

NextFolder == FolderFromBytes \/ FolderRead \/ FolderToBytes \/ FolderToBytesAgain

SpecFolder == InitFolder /\ [][NextFolder]_vars

-----------------------------------------------------------------------------
(* Claims about the folder methods.                                         *)

\* the byte stream to_bytes returned, taken apart: slot count, slot i (from
\* 0) of the table, the data region
OutSlotCnt == FromBE(SubSeq(out_bytes, 1, 4))
OutOffset(i) == FromBE(SubSeq(out_bytes, 9 + 8 * i, 12 + 8 * i))
OutTypeFlag(i) == FromBE(SubSeq(out_bytes, 15 + 8 * i, 16 + 8 * i))
OutData == SubSeq(out_bytes, 9 + 8 * OutSlotCnt, Len(out_bytes))

\* the stored length of the payload of slot i (from 0): the entry's bytes,
\* compressed when the entry says so, nothing for an entry without payload
\* and for the closing slot
StoredLen(i) == IF i < Len(assets) THEN Len(CompBin(assets[i + 1])) ELSE 0

RECURSIVE StoredLenBefore(_)
StoredLenBefore(i) == IF i = 0 THEN 0 ELSE StoredLenBefore(i - 1) + StoredLen(i - 1)

\* C12: in the stream to_bytes returns, slot i's offset is the total stored
\* length of the payloads of slots 0..i-1, slot 0 has offset 0, a slot
\* without payload adds nothing, and the last slot's offset is the length of
\* the data region.
C12_Offsets ==
    pc = "serialised" =>
        /\ OutSlotCnt >= 1
        /\ OutOffset(0) = 0
        /\ \A i \in 0..(OutSlotCnt - 1) : OutOffset(i) = StoredLenBefore(i)
        /\ \A i \in 0..(OutSlotCnt - 2) :
              (i < Len(assets) /\ assets[i + 1].data = <<>>) => OutOffset(i + 1) = OutOffset(i)
        /\ OutOffset(OutSlotCnt - 1) = Len(OutData)

\* a stream of three slots: a compressed payload, a plain payload, the end
C12_Witness ==
    /\ pc = "serialised"
    /\ OutSlotCnt = 3
    /\ assets[1].data # <<>> /\ assets[1].meta.c_flag
    /\ assets[2].data # <<>> /\ ~assets[2].meta.c_flag
    /\ OutOffset(1) > 0 /\ OutOffset(2) > OutOffset(1)

\* C13: in every folder from_bytes or read returns, an entry of type_flag 4
\* has no payload, and no slot that to_bytes writes with type_flag 4 has
\* payload bytes in the data region.
C13_EmptyFlagNoPayload ==
    /\ pc \in {"parsed", "read"} =>
          \A k \in 1..Len(assets) : assets[k].meta.t_flag = 4 => assets[k].data = <<>>
    /\ pc = "serialised" =>
          \A i \in 0..(OutSlotCnt - 2) : OutTypeFlag(i) = 4 => OutOffset(i + 1) = OutOffset(i)

-----------------------------------------------------------------------------
(* SpecDispatch: one payload of one segment is handed to                    *)
(* from_seg_indx_and_bytes.                                                 *)

MaxSegment == 8     \* largest segment index handed to the dispatch

\* payloads with each prefix the dispatch looks for, whole and cut short
DispatchPayloads ==
    { <<>>, <<0>>, <<1, 1, 2>>, <<1, 3, 0>>, <<0, 0, 0, 0>>, <<1, 1, 2, 5>>,
      <<0, 0, 0, 11>>, <<0, 0, 0, 11, 1>>,
      <<1, 1, 2, 5, 0>>, <<1, 3, 0, 5, 0>>, <<1, 3, 0, 0, 0>>,
      <<1, 3, 0, 1, 1, 2, 65, 0, 0>>,
      <<1, 1, 2, 5, 0, 3, 1, 2, 65, 0, 2, 2, 65, 0, 3, 2, 65, 0>>,
      <<1, 3, 0, 5, 0, 3, 1, 2, 65, 0, 2, 2, 65, 0, 3, 2, 65, 0>>,
      <<0, 0, 0, 6, 0, 1, 128, 1, 2, 0>>,
      <<0, 1, 0, 0, 0, 0, 0, 0, 0, 0, 0, 0, 0, 0, 0, 0>>,
      \* a GruntyQuestion of three empty strings whose bytes also lay out a
      \* Dialog of five bottom strings
      <<1, 3, 0, 5, 0, 3, 1, 0, 2, 0, 3, 0, 0, 0, 0, 0, 0, 0, 0, 0, 0>> }

InitDispatch ==
    /\ IdleText /\ IdleArch /\ IdleTex
    /\ pc = "undispatched"
    /\ seg_indx \in 0..MaxSegment
    /\ payload \in DispatchPayloads
    /\ kind = "none" /\ records = <<>> /\ asset = <<>> /\ out_payload = <<>>

\* let this_asset = asset::from_seg_indx_and_bytes(segment, i, &decomp_bin)
Dispatch ==
    /\ pc = "undispatched"
    /\ LET this_asset == from_seg_indx_and_bytes(seg_indx, payload)
       IN  IF this_asset.ok
           THEN /\ asset' = this_asset.val /\ kind' = this_asset.val.type
                /\ pc' = "dispatched"
           ELSE /\ asset' = asset /\ kind' = kind /\ pc' = "panic"
    /\ UNCHANGED <<payload, records, out_payload, seg_indx, textVars, archVars, texVars>>

NextDispatch == Dispatch

SpecDispatch == InitDispatch /\ [][NextDispatch]_vars

\* the leading bytes of the payload are exactly these
PayloadStarts(prefix) ==
    /\ Len(payload) >= Len(prefix)
    /\ \A k \in 1..Len(prefix) : payload[k] = prefix[k]

\* C14: the asset kind is the one the table gives for the segment and the
\* leading bytes: 0 Animation; 1 and 3 Model for 00 00 00 0B, else Sprite;
\* 2 LevelSetup; 4 QuizQuestion for 01 01 02 05 00, GruntyQuestion for
\* 01 03 00 05 00, Dialog for another 01 03 00, else DemoInput; 5 Model;
\* 6 Midi; above 6 Binary.
C14_DispatchTable ==
    pc = "dispatched" =>
        /\ seg_indx = 0 => kind = "Animation"
        /\ seg_indx \in {1, 3} =>
              kind = IF PayloadStarts(<<0, 0, 0, 11>>) THEN "Model" ELSE "Sprite"
        /\ seg_indx = 2 => kind = "LevelSetup"
        /\ seg_indx = 4 =>
              /\ PayloadStarts(<<1, 1, 2, 5, 0>>) => kind = "QuizQuestion"
              /\ PayloadStarts(<<1, 3, 0, 5, 0>>) => kind = "GruntyQuestion"
              /\ (PayloadStarts(<<1, 3, 0>>) /\ ~PayloadStarts(<<1, 3, 0, 5, 0>>))
                    => kind = "Dialog"
              /\ (~PayloadStarts(<<1, 1, 2, 5, 0>>) /\ ~PayloadStarts(<<1, 3, 0>>))
                    => kind = "DemoInput"
        /\ seg_indx = 5 => kind = "Model"
        /\ seg_indx = 6 => kind = "Midi"
        /\ seg_indx > 6 => kind = "Binary"

\* a segment-4 payload with the GruntyQuestion prefix was dispatched
C14_Witness ==
    /\ pc = "dispatched" /\ seg_indx = 4
    /\ PayloadStarts(<<1, 3, 0, 5, 0>>) /\ kind = "GruntyQuestion"

\* C15: the dispatch returns an asset for every segment and every payload,
\* empty and short payloads included.
C15_DispatchTotal == pc # "panic"

\* row k (from 1) of the manifest read last: its uid, and its payload file
\* in the form to_bytes stores it
RowUid(k) == ParseHex(manifest.files[k].uid)
RowStored(k) ==
    LET b == FileAt(files, manifest.files[k].relative_path).val.bytes
    IN  IF manifest.files[k].compressed = "true" THEN bk_zip(b) ELSE b

\* to_bytes ran on a folder that new() and one read built from a manifest
\* whose rows have distinct uids
ConstructedFromDistinctRows ==
    /\ pc = "serialised" /\ in_bytes = <<>>
    /\ \A k, h \in 1..Len(manifest.files) : RowUid(k) = RowUid(h) => k = h

\* C16 as stated: the payloads are in the data region in the order of their
\* rows in the files sequence.
C16_FilesOrder ==
    ConstructedFromDistinctRows =>
        OutData = Flatten([k \in 1..Len(manifest.files) |-> RowStored(k)])

\* C16: the payloads are in the data region in ascending order of uid,
\* whatever the order of their rows in the files sequence.
C16_UidOrder ==
    ConstructedFromDistinctRows =>
        OutData = Flatten([u \in 1..OutSlotCnt |->
                     LET named == {k \in 1..Len(manifest.files) : RowUid(k) = u - 1}
                     IN  IF named = {} THEN <<>> ELSE RowStored(CHOOSE k \in named : TRUE)])

\* the first row names uid 1 and the second uid 0
C16_Witness ==
    /\ ConstructedFromDistinctRows
    /\ Len(manifest.files) = 2 /\ RowUid(1) = 1 /\ RowUid(2) = 0

\* the type names of the manifest format
TypeNames ==
    {"Animation", "Binary", "DemoInput", "Dialog", "GruntyQuestion", "LevelSetup", "Midi",
     "Model", "QuizQuestion", "Sprite_CI4", "Sprite_CI8", "Sprite_I4", "Sprite_I8",
     "Sprite_RGBA16", "Sprite_RGBA32", "Sprite_IA4", "Sprite_IA8"}

\* C17: read ends in an error whenever a row's type is not a recognised type
\* name, so a folder is read, and an archive produced, only from manifests
\* whose rows all have recognised types.
C17_UnknownTypeFatal ==
    pc \in {"read", "serialised"} =>
        \A k \in 1..Len(manifest.files) : manifest.files[k].type.name \in TypeNames

-----------------------------------------------------------------------------
(* Further claims about the typed codecs and the manifest.                  *)

\* C18: DemoButtonFile::from_bytes returns a value for a payload of 4 bytes
\* or more only when the length prefix equals the number of bytes after it,
\* which is 6 times the record count.
C18_DemoLengthChecked ==
    (pc = "parsed_asset" /\ kind = "DemoInput" /\ Len(payload) >= 4) =>
        /\ FromBE(SubSeq(payload, 1, 4)) = Len(payload) - 4
        /\ FromBE(SubSeq(payload, 1, 4)) = 6 * Len(asset.inputs)

\* C19: after from_bytes, read and to_bytes, every entry at index i of the
\* folder has uid i, entries added by a read that widens a folder included.
C19_DenseByUid ==
    pc \in {"parsed", "read", "serialised"} =>
        \A k \in 1..Len(assets) : assets[k].uid = k - 1

\* C20: every files row extract writes has a type among the type names of
\* the manifest format, sprites of unknown format code included.
C20_RowTypeNames ==
    pc = "extracted" =>
        \A k \in 1..Len(manifest.files) :
            /\ manifest.files[k].type.name \in TypeNames
            /\ manifest.files[k].type.arg = 0

\* ---------------------------------------------------------------------------
\* C21 (as stated): after extract of an archive whose header stores the slot
\* count N, the manifest's tbl_len is N + 1.
HeaderCount == FromBE(SubSeq(in_bytes, 1, 4))

EmptySlots == {k \in 1..Len(assets) : assets[k].meta.t_flag = 4}

C21_TblLenHeaderPlusOne ==
    pc = "extracted" => ParseHex(manifest.tbl_len) = HeaderCount + 1

\* C21 (amended): the header's count N includes the closing slot, so
\* from_bytes builds N - 1 entries (none when N is 0) and write emits tbl_len
\* as the number of entries plus one: tbl_len is N itself, and 1 when N is 0.
\* Slots of type_flag 4 are entries like the others, so they are counted in
\* tbl_len, but no files row names their uid: the rows are exactly the
\* entries of another type_flag.
C21_TblLenIsHeaderCount ==
    pc = "extracted" =>
        /\ ParseHex(manifest.tbl_len) = (IF HeaderCount = 0 THEN 1 ELSE HeaderCount)
        /\ ParseHex(manifest.tbl_len) = Len(assets) + 1
        /\ Len(manifest.files) = Len(assets) - Cardinality(EmptySlots)
        /\ \A k \in EmptySlots : \A r \in 1..Len(manifest.files) :
               ParseHex(manifest.files[r].uid) # k - 1

C21_Witness ==
    /\ pc = "extracted"
    /\ HeaderCount = 4
    /\ Cardinality(EmptySlots) = 2
    /\ Len(manifest.files) = 1
    /\ manifest.tbl_len = <<52>>

-----------------------------------------------------------------------------
(* SpecSprite: Sprite::from_bytes on sprites of one frame, the frame made   *)
(* of up to two chunks, in the formats I8, RGBA16 and RGBA32.               *)

MaxCanvasW == 2
MaxChunkW == 2

I16BE(n) == U16BE(IF n < 0 THEN n + 65536 ELSE n)

\* zero bytes up to the next multiple of 8: (offset + 7) & !7
Pad8(b) == b \o [k \in 1..(Align8(Len(b)) - Len(b)) |-> 0]

\* the pixel bytes of chunk c: w * h * pxl_size / 8 bytes, every byte with
\* two different nibbles
ChunkData(format, c, chnk) ==
    [k \in 1..((chnk.w * chnk.h * PxlSize(format)) \div 8) |-> (64 * c + 17 * k + 2) % 256]

\* the chunks laid out as SpriteChunk::new reads them: 8 bytes of header,
\* the offset aligned to 8, the pixel bytes
RECURSIVE ChunksOf(_, _, _, _)
ChunksOf(bin, format, chunks, c) ==
    IF chunks = <<>> THEN bin
    ELSE LET chnk == Head(chunks)
             hdr  == I16BE(chnk.x) \o I16BE(chnk.y) \o U16BE(chnk.w) \o U16BE(chnk.h)
         IN  ChunksOf(Pad8(bin \o hdr) \o ChunkData(format, c, chnk), format, Tail(chunks), c + 1)

\* a sprite of one frame: 16 bytes of header, one frame offset, the frame's
\* 20 bytes of header, its chunks
SpriteOf(code, w, h, chunks) ==
    ChunksOf(U16BE(1) \o U16BE(code) \o [k \in 1..12 |-> 0] \o U32BE(0)
             \o I16BE(0) \o I16BE(0) \o U16BE(w) \o U16BE(h) \o U16BE(Len(chunks))
             \o [k \in 1..10 |-> 0],
             ImgFmtOf(code), chunks, 1)

\* chunks that lie inside the canvas, overhang it on any side, or miss it;
\* a chunk of width 0 has no pixel byte
ChunkSet ==
    [x : {-1, 0, 1}, y : {-1, 0, 1}, w : 0..MaxChunkW, h : {1, 2}]

SpritePayloads ==
    {SpriteOf(code, w, h, chunks) :
        code \in {64, 1024, 2048}, w \in 1..MaxCanvasW, h \in {1, 2},
        chunks \in SeqsUpTo(ChunkSet, 2)}

InitSprite ==
    /\ IdleText /\ IdleArch /\ IdleTex
    /\ pc = "sprite_bytes"
    /\ payload \in SpritePayloads
    /\ kind = "none" /\ records = <<>> /\ asset = <<>> /\ out_payload = <<>> /\ seg_indx = 0

\* Sprite::from_bytes(in_bytes)
SpriteFromBytes ==
    /\ pc = "sprite_bytes"
    /\ LET sprite == Sprite_from_bytes(payload)
       IN  IF sprite.ok
           THEN /\ asset' = sprite.val /\ kind' = sprite.val.type /\ pc' = "sprite"
           ELSE /\ asset' = asset /\ kind' = kind /\ pc' = "panic"
    /\ UNCHANGED <<payload, records, out_payload, seg_indx, textVars, archVars, texVars>>

NextSprite == SpriteFromBytes

SpecSprite == InitSprite /\ [][NextSprite]_vars

\* the frame of the sprite in payload: its format, the canvas size and the
\* chunks its bytes declare
SprFormat == ImgFmtOf(FromBE(SubSeq(payload, 3, 4)))
FrameW == FromBE(SubSeq(payload, 25, 26))
FrameH == FromBE(SubSeq(payload, 27, 28))
ChunkCnt == FromBE(SubSeq(payload, 29, 30))
Declared == ReadChunks(payload, 40, SprFormat, ChunkCnt, <<>>).val

CanvasPixel(i, j) ==
    SubSeq(asset.frame[1].pixel_data, 4 * (j * FrameW + i) + 1, 4 * (j * FrameW + i) + 4)

\* where the chunk is pasted: at its own x and y, at (0, 0) when it is alone
ChunkX(c) == IF ChunkCnt = 1 THEN 0 ELSE Declared[c].x
ChunkY(c) == IF ChunkCnt = 1 THEN 0 ELSE Declared[c].y

\* canvas position (i, j) lies in the w-by-h rectangle of chunk c
Covers(c, i, j) ==
    /\ i - ChunkX(c) \in 0..(Declared[c].w - 1)
    /\ j - ChunkY(c) \in 0..(Declared[c].h - 1)

\* the source byte of chunk c shown at canvas position (i, j), one byte a pixel
ByteAt(c, i, j) ==
    Declared[c].pixel_data[(j - ChunkY(c)) * Declared[c].w + (i - ChunkX(c)) + 1]

\* C22: in a sprite of format code 0x0040 (I8) every pixel byte v of a chunk
\* becomes exactly one canvas pixel [v, v, v, 0xFF]: the canvas positions
\* under the frame's last chunk show the chunk's bytes, one byte a pixel.
C22_I8OnePixelPerByte ==
    (pc = "sprite" /\ SprFormat = "I8" /\ ChunkCnt >= 1) =>
        \A i \in 0..(FrameW - 1), j \in 0..(FrameH - 1) :
            Covers(ChunkCnt, i, j) =>
                CanvasPixel(i, j) = <<ByteAt(ChunkCnt, i, j), ByteAt(ChunkCnt, i, j),
                                      ByteAt(ChunkCnt, i, j), 255>>

\* the decoded pixel of chunk c shown at canvas position (i, j)
DecodedAt(c, i, j) ==
    LET raw_data == ChunkRawData(SprFormat, Declared[c].pixel_data, <<>>)
        n == (j - ChunkY(c)) * Declared[c].w + (i - ChunkX(c))
    IN  SubSeq(raw_data, 4 * n + 1, 4 * n + 4)

\* the canvas holds 4*w*h bytes; a position inside the rectangle of a chunk
\* shows the pixel of the last such chunk, any other position is [0,0,0,0]
CanvasAsStated ==
    /\ Len(asset.frame[1].pixel_data) = 4 * FrameW * FrameH
    /\ \A i \in 0..(FrameW - 1), j \in 0..(FrameH - 1) :
          LET cs == {c \in 1..ChunkCnt : Covers(c, i, j)}
          IN  IF cs = {} THEN CanvasPixel(i, j) = <<0, 0, 0, 0>>
              ELSE CanvasPixel(i, j) = DecodedAt(CHOOSE c \in cs : \A d \in cs : d <= c, i, j)

\* C23: SpriteFrame::new returns a canvas of exactly 4*w*h bytes; pixel
\* (i, j) of a chunk is at canvas position (chunk.x + i, chunk.y + j), or at
\* (i, j) when the frame has exactly one chunk, pixels outside the canvas are
\* dropped, and the positions covered by no chunk are [0,0,0,0].
C23_CanvasAssembly ==
    pc \in {"sprite", "panic"} => (pc = "sprite" /\ CanvasAsStated)

\* the same statement for the frames that are not I8 and have no chunk of
\* width 0
CanvasAssemblyElsewhere ==
    (pc = "sprite" /\ SprFormat # "I8") => CanvasAsStated

\* the rows of the manifest just read, and the last row naming a uid
RowsRead == manifest'.files
LastRowOf(uid) ==
    CHOOSE r \in 1..Len(RowsRead) :
        /\ ParseHex(RowsRead[r].uid) = uid
        /\ \A q \in (r + 1)..Len(RowsRead) : ParseHex(RowsRead[q].uid) # uid
NamedUids == {ParseHex(RowsRead[r].uid) : r \in 1..Len(RowsRead)}
MaxNamedUid == IF NamedUids = {} THEN 0 ELSE CHOOSE u \in NamedUids : \A v \in NamedUids : v <= u
Largest(S) == CHOOSE n \in S : \A m \in S : m <= n

\* C24: a read leaves the folder with max(entries before the call, tbl_len,
\* max_uid + 1) entries (max_uid is 0 for a manifest without rows); the entry
\* at every uid a row names has the compressed flag, the type_flag and the
\* payload file of the last row naming it; the entries the resize appended
\* and no row names have type_flag 4, are not compressed and have no payload.
C24_ReadResult ==
    [][pc' = "read" =>
        /\ Len(assets') = Largest({Len(assets), ParseHex(manifest'.tbl_len), MaxNamedUid + 1})
        /\ \A uid \in NamedUids :
              LET row == RowsRead[LastRowOf(uid)]
                  a   == assets'[uid + 1]
              IN  /\ a.meta.c_flag = (row.compressed = "true")
                  /\ a.meta.t_flag = ParseHex(row.flags)
                  /\ a.data # <<>>
                  /\ EntryBytes(a.data[1]) = FileAt(files', row.relative_path).val.bytes
        /\ \A k \in (Len(assets) + 1)..Len(assets') :
              (k - 1) \notin NamedUids =>
                  /\ assets'[k].meta.t_flag = 4
                  /\ ~assets'[k].meta.c_flag
                  /\ assets'[k].data = <<>>
    ]_vars

\* a folder of two entries parsed from an archive, widened to four by a read
\* whose two rows both name uid 2: entry 2 holds the second row's file,
\* entry 3 is appended empty
C24_Witness ==
    /\ pc = "read"
    /\ Len(in_bytes) = 32 /\ in_bytes[4] = 3
    /\ manifest.tbl_len = <<52>>
    /\ Len(manifest.files) = 2
    /\ \A r \in 1..2 : ParseHex(manifest.files[r].uid) = 2
    /\ Len(assets) = 4
    /\ EntryBytes(assets[3].data[1]) = RowBytes(2)
    /\ assets[4].data = <<>>

\* C25: to_bytes returns the folder with as many entries as it was given, so
\* a second call right after the first succeeds and returns the same bytes.
C25_ToBytesKeepsFolder ==
    [][/\ pc' \in {"serialised", "serialised_again"} => Len(assets') = Len(assets)
       /\ pc = "serialised" => (pc' = "serialised_again" /\ out_bytes' = out_bytes)
    ]_vars

====
